---------------------------- MODULE Spec2Model ----------------------------
(***************************************************************************)
(* A model of the CSS tokenizer (src/tokenizer.go) and parser              *)
(* (src/parser.go) of benbjohnson/css.                                     *)
(*                                                                         *)
(* Code points are integers, strings are sequences of code points.  The    *)
(* Go code is sequential and imperative; every Go function that changes    *)
(* the Tokenizer becomes an operator from the Tokenizer record to the      *)
(* Tokenizer record after the call (with the returned value beside it),    *)
(* and every Go loop becomes a RECURSIVE operator.                         *)
(***************************************************************************)
EXTENDS Integers, Sequences, FiniteSets, TLC

VARIABLES
    input,   \* what the run was started on: code points, or component values
    t,       \* the Tokenizer struct (src/tokenizer.go:21-35)
    out,     \* what the calls made so far returned, in order
    pc,      \* where the run is
    p        \* the parser's return value and its error list

vars == <<input, t, out, pc, p>>

(***************************************************************************)
(* Bounds of the model.                                                    *)
(***************************************************************************)
MaxReadLen == 4      \* longest input of the character-stream runs
MaxScanLen == 4      \* longest input of the tokenizer runs

SeqsUpTo(S, n) == UNION {[1..k -> S] : k \in 0..n}

Last(s) == s[Len(s)]

IsPrefix(a, b) == Len(a) <= Len(b) /\ SubSeq(b, 1, Len(a)) = a

\* F applied to the value of e: the value is computed once and F names it.
Let(e, F(_)) == F(e)

(***************************************************************************)
(* Code points the source names as rune literals.                          *)
(***************************************************************************)
eof == -1

cp == [ NUL |-> 0, TAB |-> 9, LF |-> 10, VT |-> 11, FF |-> 12, CR |-> 13,
        SP |-> 32, BANG |-> 33, DQUOTE |-> 34, HASH |-> 35, DOLLAR |-> 36,
        PERCENT |-> 37, QUOTE |-> 39, LPAREN |-> 40, RPAREN |-> 41,
        STAR |-> 42, PLUS |-> 43, COMMA |-> 44, MINUS |-> 45, DOT |-> 46,
        SLASH |-> 47, COLON |-> 58, SEMI |-> 59, LT |-> 60, EQ |-> 61,
        GT |-> 62, QMARK |-> 63, AT |-> 64, LBRACK |-> 91, BSLASH |-> 92,
        RBRACK |-> 93, CARET |-> 94, USCORE |-> 95, LBRACE |-> 123,
        PIPE |-> 124, RBRACE |-> 125, TILDE |-> 126, DEL |-> 127,
        REPL |-> 65533 ]

\* len(t.buf): the circular buffer holds 4 runes.
BufLen == 4

ZeroPos == [Line |-> 0, Char |-> 0]

\* A nil *Token.
NoToken ==
    [ Tok |-> "nil", Type |-> "", Value |-> <<>>, Ending |-> 0, Unit |-> <<>>,
      Start |-> 0, End |-> 0, Pos |-> ZeroPos ]

(***************************************************************************)
(* The character stream: read, unread, curr, Pos.                          *)
(***************************************************************************)
\* bufmax is a history field, not a field of the Go struct: the largest value
\* bufn has had so far, inside Scan calls included.
NewTokenizer(r) ==
    [ rd     |-> r,
      buf    |-> [i \in 0..(BufLen - 1) |-> 0],
      bufpos |-> [i \in 0..(BufLen - 1) |-> ZeroPos],
      bufi   |-> 0,
      bufn   |-> 0,
      bufmax |-> 0,
      tokbuf |-> NoToken,
      tokbufn |-> FALSE,
      Errors |-> <<>> ]

curr(tk) == tk.buf[tk.bufi]

Pos(tk) == tk.bufpos[tk.bufi]


RECURSIVE unread(_, _)
unread(tk, n) ==
    IF n = 0 THEN tk
    ELSE unread([tk EXCEPT !.bufi = (tk.bufi + BufLen - 1) % BufLen,
                           !.bufn = tk.bufn + 1,
                           !.bufmax = IF tk.bufn + 1 > @ THEN tk.bufn + 1 ELSE @],
                n - 1)

\* A tail of read that moves the position on for every rune, also for EOF.
bufputAdvance(tk, ch, pos) ==
    LET i == (tk.bufi + 1) % BufLen
    IN [tk EXCEPT !.bufi = i, !.buf[i] = ch, !.bufpos[i] = [pos EXCEPT !.Char = @ + 1]]

\* The tail of read: the rune and its position go into the next slot.
bufput(tk, ch, pos) ==
    LET i == (tk.bufi + 1) % BufLen
    IN [tk EXCEPT !.bufi = i, !.buf[i] = ch, !.bufpos[i] = pos]

\* A carriage return was read: the rune after it is read from the reader as
\* well; a line feed is swallowed, anything else is "unread" (the buffer
\* index steps back, the rune itself is not stored anywhere).
readCR(tk) ==
    IF tk.rd = <<>> THEN tk
    ELSE IF Head(tk.rd) # cp.LF THEN unread([tk EXCEPT !.rd = Tail(tk.rd)], 1)
    ELSE [tk EXCEPT !.rd = Tail(tk.rd)]

\* read: the returned rune is curr() of the Tokenizer after the call.
read(tk) ==
    IF tk.bufn > 0
    THEN [tk EXCEPT !.bufi = (tk.bufi + 1) % BufLen, !.bufn = tk.bufn - 1]
    ELSE IF tk.rd = <<>> THEN bufput(tk, eof, Pos(tk))
    ELSE Let(IF Head(tk.rd) = cp.FF THEN cp.LF ELSE Head(tk.rd), LAMBDA r1 :
         Let(IF r1 = cp.CR THEN cp.LF ELSE r1, LAMBDA r2 :
         Let(IF r2 = cp.NUL THEN cp.REPL ELSE r2, LAMBDA r3 :
             bufput(IF r1 = cp.CR THEN readCR([tk EXCEPT !.rd = Tail(tk.rd)])
                    ELSE [tk EXCEPT !.rd = Tail(tk.rd)],
                    r3,
                    IF r3 = cp.LF
                    THEN [Line |-> Pos(tk).Line + 1, Char |-> 0]
                    ELSE [Pos(tk) EXCEPT !.Char = @ + 1]))))

(***************************************************************************)
(* Character classes (src/tokenizer.go:716-754).                           *)
(***************************************************************************)
isWhitespace(ch) == ch = cp.SP \/ ch = cp.TAB \/ ch = cp.LF

isLetter(ch) == (ch >= 97 /\ ch <= 122) \/ (ch >= 65 /\ ch <= 90)

isDigit(ch) == ch >= 48 /\ ch <= 57

isHexDigit(ch) ==
    (ch >= 48 /\ ch <= 57) \/ (ch >= 97 /\ ch <= 102) \/ (ch >= 65 /\ ch <= 70)

isNonASCII(ch) == ch >= 128

isNameStart(ch) == isLetter(ch) \/ isNonASCII(ch) \/ ch = cp.USCORE

isName(ch) == isNameStart(ch) \/ isDigit(ch) \/ ch = cp.MINUS

isNonPrintable(ch) ==
    (ch >= 0 /\ ch <= 8) \/ ch = cp.VT \/ (ch >= 14 /\ ch <= 31) \/ ch = cp.DEL

(***************************************************************************)
(* Library conversions the tokenizer calls.                                *)
(***************************************************************************)
\* bytes.Buffer.WriteRune: a rune that is no Unicode scalar value is written
\* as U+FFFD.
WriteRune(r) ==
    IF r < 0 \/ r > 1114111 \/ (r >= 55296 /\ r <= 57343) THEN cp.REPL ELSE r

\* strings.ToLower, rune by rune.  Of the non-ASCII runes only U+0130, which
\* Go lowers to "i", is spelled out.
ToLowerRune(r) ==
    IF r >= 65 /\ r <= 90 THEN r + 32 ELSE IF r = 304 THEN 105 ELSE r

ToLower(s) == [i \in 1..Len(s) |-> ToLowerRune(s[i])]

HexVal(ch) ==
    IF ch >= 48 /\ ch <= 57 THEN ch - 48
    ELSE IF ch >= 97 /\ ch <= 102 THEN ch - 87
    ELSE ch - 55

\* strconv.ParseInt(s, 16, 0) on a string of hex digits.
RECURSIVE ParseHex(_)
ParseHex(s) ==
    IF s = <<>> THEN 0
    ELSE 16 * ParseHex(SubSeq(s, 1, Len(s) - 1)) + HexVal(Last(s))

\* strings.Replace(s, "?", string(by), -1)
ReplaceQ(s, by) == [i \in 1..Len(s) |-> IF s[i] = cp.QMARK THEN by ELSE s[i]]

(***************************************************************************)
(* Tokens (src/unnamed/part_003:313-376).  Number, the float64 parsed from  *)
(* the text of a numeric token, is a function of that text and is left out.*)
(***************************************************************************)
Token(tok, pos) ==
    [ Tok |-> tok, Type |-> "", Value |-> <<>>, Ending |-> 0, Unit |-> <<>>,
      Start |-> 0, End |-> 0, Pos |-> pos ]

TokenV(tok, value, pos) == [Token(tok, pos) EXCEPT !.Value = value]

Error(msg, ch, pos) == [Message |-> msg, Rune |-> ch, Pos |-> pos]


(***************************************************************************)
(* The scanning subroutines.  Each returns [t |-> the Tokenizer after the  *)
(* call, v |-> the value returned].                                        *)
(***************************************************************************)
peekEscape(tk) ==
    IF curr(tk) # cp.BSLASH THEN [t |-> tk, v |-> FALSE]
    ELSE Let(read(tk), LAMBDA tk1 :
             [t |-> unread(tk1, 1), v |-> curr(tk1) # cp.LF])

peekIdent(tk) ==
    IF curr(tk) = cp.MINUS
    THEN Let(read(tk), LAMBDA tk1 :
             IF isNameStart(curr(tk1)) THEN [t |-> unread(tk1, 1), v |-> TRUE]
             ELSE peekEscape(unread(tk1, 1)))
    ELSE IF isNameStart(curr(tk)) THEN [t |-> tk, v |-> TRUE]
    ELSE IF curr(tk) = cp.BSLASH THEN peekEscape(tk)
    ELSE [t |-> tk, v |-> FALSE]

\* The loop of scanEscape: up to 5 more hex digits after the first.
RECURSIVE scanEscapeLoop(_, _, _)
scanEscapeLoop(tk, buf, i) ==
    IF i >= 5 THEN [t |-> tk, v |-> buf]
    ELSE Let(read(tk), LAMBDA tk1 :
             IF curr(tk1) = eof \/ isWhitespace(curr(tk1))
             THEN [t |-> tk1, v |-> buf]
             ELSE IF ~isHexDigit(curr(tk1)) THEN [t |-> unread(tk1, 1), v |-> buf]
             ELSE scanEscapeLoop(tk1, Append(buf, curr(tk1)), i + 1))

scanEscape(tk) ==
    Let(read(tk), LAMBDA tk1 :
        IF isHexDigit(curr(tk1))
        THEN Let(scanEscapeLoop(tk1, <<curr(tk1)>>, 0), LAMBDA r :
                 [t |-> r.t, v |-> ParseHex(r.v)])
        ELSE IF curr(tk1) = eof THEN [t |-> tk1, v |-> cp.REPL]
        ELSE [t |-> tk1, v |-> curr(tk1)])

RECURSIVE scanNameLoop(_, _)
scanNameLoop(tk, buf) ==
    Let(read(tk), LAMBDA tk1 :
        IF isName(curr(tk1))
        THEN scanNameLoop(tk1, Append(buf, WriteRune(curr(tk1))))
        ELSE Let(peekEscape(tk1), LAMBDA pe :
                 IF pe.v
                 THEN Let(scanEscape(pe.t), LAMBDA e :
                          scanNameLoop(e.t, Append(buf, WriteRune(e.v))))
                 ELSE [t |-> unread(pe.t, 1), v |-> buf]))

scanName(tk) == scanNameLoop(unread(tk, 1), <<>>)

RECURSIVE scanWhitespaceLoop(_, _)
scanWhitespaceLoop(tk, buf) ==
    Let(read(tk), LAMBDA tk1 :
        IF curr(tk1) = eof THEN [t |-> tk1, v |-> buf]
        ELSE IF ~isWhitespace(curr(tk1)) THEN [t |-> unread(tk1, 1), v |-> buf]
        ELSE scanWhitespaceLoop(tk1, Append(buf, WriteRune(curr(tk1)))))

scanWhitespace(tk) ==
    Let(scanWhitespaceLoop(tk, <<WriteRune(curr(tk))>>), LAMBDA r :
        [t |-> r.t, v |-> TokenV("Whitespace", r.v, Pos(tk))])

RECURSIVE scanStringLoop(_, _, _, _)
scanStringLoop(tk, buf, ending, pos) ==
    Let(read(tk), LAMBDA tk1 :
        IF curr(tk1) = eof \/ curr(tk1) = ending
        THEN [t |-> tk1,
              v |-> [TokenV("String", buf, pos) EXCEPT !.Ending = ending]]
        ELSE IF curr(tk1) = cp.LF
        THEN [t |-> unread(tk1, 1), v |-> Token("BadString", pos)]
        ELSE IF curr(tk1) = cp.BSLASH
        THEN Let(peekEscape(tk1), LAMBDA pe :
                 IF pe.v
                 THEN Let(scanEscape(pe.t), LAMBDA e :
                          scanStringLoop(e.t, Append(buf, WriteRune(e.v)), ending, pos))
                 ELSE Let(read(pe.t), LAMBDA tk2 :
                          IF curr(tk2) = cp.LF
                          THEN scanStringLoop(tk2, Append(buf, WriteRune(cp.LF)),
                                              ending, pos)
                          ELSE scanStringLoop(tk2, buf, ending, pos)))
        ELSE scanStringLoop(tk1, Append(buf, WriteRune(curr(tk1))), ending, pos))

scanString(tk) == scanStringLoop(tk, <<>>, curr(tk), Pos(tk))

RECURSIVE scanDigitsLoop(_, _)
scanDigitsLoop(tk, buf) ==
    Let(read(tk), LAMBDA tk1 :
        IF isDigit(curr(tk1)) THEN scanDigitsLoop(tk1, Append(buf, curr(tk1)))
        ELSE [t |-> unread(tk1, 1), v |-> buf])

scanDigits(tk) == scanDigitsLoop(tk, <<>>)

\* scanNumber, first part: the sign and the digits before the full stop.
scanNumberSign(tk) ==
    Let(read(tk), LAMBDA tk1 :
        IF curr(tk1) = cp.PLUS \/ curr(tk1) = cp.MINUS
        THEN Let(scanDigits(tk1), LAMBDA d :
                 [t |-> d.t, typ |-> "integer", repr |-> <<curr(tk1)>> \o d.v])
        ELSE Let(scanDigits(unread(tk1, 1)), LAMBDA d :
                 [t |-> d.t, typ |-> "integer", repr |-> d.v]))

\* scanNumber, second part: a full stop and digits.
scanNumberFraction(n) ==
    Let(read(n.t), LAMBDA tk1 :
        IF curr(tk1) = cp.DOT
        THEN Let(read(tk1), LAMBDA tk2 :
                 IF isDigit(curr(tk2))
                 THEN Let(scanDigits(tk2), LAMBDA d :
                          [t |-> d.t, typ |-> "number",
                           repr |-> n.repr \o <<cp.DOT, curr(tk2)>> \o d.v])
                 ELSE [n EXCEPT !.t = unread(tk2, 2)])
        ELSE [n EXCEPT !.t = unread(tk1, 1)])

\* scanNumber, third part: the scientific notation.
scanNumberExponent(n) ==
    Let(read(n.t), LAMBDA tk1 :
        IF curr(tk1) = 101 \/ curr(tk1) = 69
        THEN Let(read(tk1), LAMBDA tk2 :
                 IF curr(tk2) = cp.PLUS \/ curr(tk2) = cp.MINUS
                 THEN Let(read(tk2), LAMBDA tk3 :
                          IF isDigit(curr(tk3))
                          THEN [t |-> tk3, typ |-> "number",
                                repr |-> n.repr \o <<curr(tk1), curr(tk2), curr(tk3)>>]
                          ELSE [n EXCEPT !.t = unread(tk3, 3)])
                 ELSE IF isDigit(curr(tk2))
                 THEN [t |-> tk2, typ |-> "number",
                       repr |-> n.repr \o <<curr(tk1), curr(tk2)>>]
                 ELSE [n EXCEPT !.t = unread(tk2, 2)])
        ELSE [n EXCEPT !.t = unread(tk1, 1)])

scanNumber(tk) ==
    Let(scanNumberSign(tk), LAMBDA n1 :
    Let(scanNumberFraction(n1), LAMBDA n2 : scanNumberExponent(n2)))

scanNumeric(tk, pos) ==
    Let(scanNumber(tk), LAMBDA n :
    Let(peekIdent(read(n.t)), LAMBDA pi :
        IF pi.v
        THEN Let(scanName(pi.t), LAMBDA u :
                 [t |-> u.t,
                  v |-> [TokenV("Dimension", n.repr \o u.v, pos)
                            EXCEPT !.Type = n.typ, !.Unit = u.v]])
        ELSE Let(read(unread(pi.t, 1)), LAMBDA tk1 :
                 IF curr(tk1) = cp.PERCENT
                 THEN [t |-> tk1,
                       v |-> [TokenV("Percentage", n.repr \o <<cp.PERCENT>>, pos)
                                 EXCEPT !.Type = n.typ]]
                 ELSE [t |-> unread(tk1, 1),
                       v |-> [TokenV("Number", n.repr, pos) EXCEPT !.Type = n.typ]])))

RECURSIVE scanComment(_)
scanComment(tk) ==
    Let(read(tk), LAMBDA tk1 :
        IF curr(tk1) = eof THEN tk1
        ELSE IF curr(tk1) = cp.STAR
        THEN Let(read(tk1), LAMBDA tk2 :
                 IF curr(tk2) = cp.SLASH THEN tk2 ELSE scanComment(unread(tk2, 1)))
        ELSE scanComment(tk1))

\* scanHash once the rune after "#" is known to start a name.
scanHashName(tk, pos) ==
    Let(peekIdent(tk), LAMBDA pi :
    Let(scanName(pi.t), LAMBDA nm :
        [t |-> nm.t,
         v |-> [TokenV("Hash", nm.v, pos)
                   EXCEPT !.Type = IF pi.v THEN "id" ELSE "unrestricted"]]))

scanHash(tk) ==
    Let(read(tk), LAMBDA tk1 :
        IF isName(curr(tk1)) THEN scanHashName(tk1, Pos(tk))
        ELSE Let(peekEscape(tk1), LAMBDA pe :
                 IF pe.v THEN scanHashName(pe.t, Pos(tk))
                 ELSE [t |-> unread(pe.t, 1),
                       v |-> TokenV("Delim", <<cp.HASH>>, Pos(tk))]))

RECURSIVE scanBadURL(_)
scanBadURL(tk) ==
    Let(read(tk), LAMBDA tk1 :
        IF curr(tk1) = cp.RPAREN \/ curr(tk1) = eof THEN tk1
        ELSE Let(peekEscape(tk1), LAMBDA pe :
                 IF pe.v THEN scanBadURL(scanEscape(pe.t).t) ELSE scanBadURL(pe.t)))

\* scanURL ends in a bad-url token.
BadURL(tk, pos) == [t |-> scanBadURL(tk), v |-> Token("BadURL", pos)]

\* scanURL when the first code point after the white space is a quote.
scanURLString(tk, pos) ==
    Let(scanString(tk), LAMBDA s :
        IF s.v.Tok = "BadString" THEN BadURL(s.t, pos)
        ELSE Let(read(s.t), LAMBDA tk1 :
             Let(IF isWhitespace(curr(tk1)) THEN scanWhitespace(tk1).t ELSE tk1,
                 LAMBDA tk2 :
             Let(read(unread(tk2, 1)), LAMBDA tk3 :
                 IF curr(tk3) # cp.RPAREN /\ curr(tk3) # eof THEN BadURL(tk3, pos)
                 ELSE [t |-> tk3, v |-> TokenV("URL", s.v.Value, pos)]))))

\* scanURL when it is not: the loop over the code points of the value.  bad
\* tells that the loop ended where the source goes on to scanBadURL.
RECURSIVE scanURLLoop(_, _, _)
scanURLLoop(tk, buf, pos) ==
    Let(read(tk), LAMBDA tk1 :
        IF curr(tk1) = cp.RPAREN \/ curr(tk1) = eof
        THEN [t |-> tk1, v |-> TokenV("URL", buf, pos), bad |-> FALSE]
        ELSE IF isWhitespace(curr(tk1))
        THEN Let(read(scanWhitespace(tk1).t), LAMBDA tk2 :
                 [t |-> tk2, v |-> TokenV("URL", buf, pos),
                  bad |-> ~(curr(tk2) = cp.RPAREN \/ curr(tk2) = eof)])
        ELSE IF curr(tk1) = cp.DQUOTE \/ curr(tk1) = cp.QUOTE
                \/ curr(tk1) = cp.LPAREN \/ isNonPrintable(curr(tk1))
        THEN [t |-> [tk1 EXCEPT !.Errors =
                        Append(@, Error("invalid url code point", curr(tk1), pos))],
              v |-> NoToken, bad |-> TRUE]
        ELSE IF curr(tk1) = cp.BSLASH
        THEN Let(peekEscape(tk1), LAMBDA pe :
                 IF pe.v
                 THEN Let(scanEscape(pe.t), LAMBDA e :
                          scanURLLoop(e.t, Append(buf, WriteRune(e.v)), pos))
                 ELSE [t |-> [pe.t EXCEPT !.Errors =
                                 Append(@, Error("unescaped \\ in url", 0, Pos(pe.t)))],
                       v |-> NoToken, bad |-> TRUE])
        ELSE scanURLLoop(tk1, Append(buf, WriteRune(curr(tk1))), pos))

scanURL(tk, pos) ==
    Let(read(tk), LAMBDA tk1 :
    Let(IF isWhitespace(curr(tk1)) THEN scanWhitespace(tk1).t ELSE unread(tk1, 1),
        LAMBDA tk2 :
    Let(read(tk2), LAMBDA tk3 :
        IF curr(tk3) = eof THEN [t |-> tk3, v |-> Token("URL", pos)]
        ELSE IF curr(tk3) = cp.DQUOTE \/ curr(tk3) = cp.QUOTE
        THEN scanURLString(tk3, pos)
        ELSE Let(scanURLLoop(unread(tk3, 1), <<>>, pos), LAMBDA u :
                 IF u.bad THEN BadURL(u.t, pos) ELSE [t |-> u.t, v |-> u.v]))))

scanIdent(tk) ==
    Let(scanName(tk), LAMBDA nm :
    Let(read(nm.t), LAMBDA tk1 :
        IF ToLower(nm.v) = <<117, 114, 108>>
        THEN IF curr(tk1) = cp.LPAREN THEN scanURL(tk1, Pos(tk))
             ELSE [t |-> unread(tk1, 2), v |-> TokenV("Ident", nm.v, Pos(tk))]
        ELSE IF curr(tk1) = cp.LPAREN
             THEN [t |-> tk1, v |-> TokenV("Function", nm.v, Pos(tk))]
             ELSE [t |-> unread(tk1, 1), v |-> TokenV("Ident", nm.v, Pos(tk))]))

\* Up to n runes that satisfy hex (hex digits) or are question marks.
RECURSIVE scanRangeRunes(_, _, _, _)
scanRangeRunes(tk, buf, n, hex) ==
    IF n <= 0 THEN [t |-> tk, v |-> buf]
    ELSE Let(read(tk), LAMBDA tk1 :
             IF (hex /\ isHexDigit(curr(tk1))) \/ (~hex /\ curr(tk1) = cp.QMARK)
             THEN scanRangeRunes(tk1, Append(buf, curr(tk1)), n - 1, hex)
             ELSE [t |-> unread(tk1, 1), v |-> buf])

URange(start, end, pos) ==
    [Token("UnicodeRange", pos) EXCEPT !.Start = start, !.End = end]

\* scanUnicodeRange when no question mark was read: an optional "-" and end.
scanRangeEnd(tk, start, pos) ==
    Let(read(tk), LAMBDA tk1 :
    Let(read(tk1), LAMBDA tk2 :
        IF curr(tk1) = cp.MINUS /\ isHexDigit(curr(tk2))
        THEN Let(scanRangeRunes(unread(tk2, 1), <<>>, 6, TRUE), LAMBDA e :
                 [t |-> e.t, v |-> URange(start, ParseHex(e.v), pos)])
        ELSE [t |-> unread(tk2, 2), v |-> URange(start, start, pos)]))

scanUnicodeRange(tk) ==
    Let([Pos(tk) EXCEPT !.Char = @ - 1], LAMBDA pos :
    Let(scanRangeRunes(tk, <<>>, 6, TRUE), LAMBDA h :
    Let(scanRangeRunes(h.t, h.v, 6 - Len(h.v), FALSE), LAMBDA q :
        IF Len(q.v) > Len(h.v)
        THEN [t |-> q.t,
              v |-> URange(ParseHex(ReplaceQ(q.v, 48)), ParseHex(ReplaceQ(q.v, 70)),
                           pos)]
        ELSE scanRangeEnd(q.t, ParseHex(q.v), pos))))

\* "$=", "*=", "^=", "~=": a match token if "=" follows, else a delimiter.
scanMatch(tk, ch, pos, tok) ==
    Let(read(tk), LAMBDA tk1 :
        IF curr(tk1) = cp.EQ THEN [t |-> tk1, v |-> Token(tok, pos)]
        ELSE [t |-> unread(tk1, 1), v |-> TokenV("Delim", <<ch>>, pos)])

\* The "-" branch of scan.
scanMinus(tk, pos) ==
    Let(read(tk), LAMBDA tk1 :
    Let(read(tk1), LAMBDA tk2 :
        IF isDigit(curr(tk1)) \/ curr(tk1) = cp.DOT
        THEN scanNumeric(unread(tk2, 3), pos)
        ELSE Let(peekIdent(unread(tk2, 3)), LAMBDA pi :
                 IF pi.v THEN scanIdent(pi.t)
                 ELSE IF curr(tk1) = cp.MINUS /\ curr(tk2) = cp.GT
                 THEN [t |-> pi.t, v |-> Token("CDC", pos)]
                 ELSE [t |-> pi.t, v |-> TokenV("Delim", <<cp.MINUS>>, pos)])))

\* The "<" branch of scan.
scanLess(tk, pos) ==
    Let(read(tk), LAMBDA tk1 :
        IF curr(tk1) # cp.BANG
        THEN [t |-> unread(tk1, 1), v |-> TokenV("Delim", <<cp.LT>>, pos)]
        ELSE Let(read(tk1), LAMBDA tk2 :
                 IF curr(tk2) # cp.MINUS
                 THEN [t |-> unread(tk2, 2), v |-> TokenV("Delim", <<cp.LT>>, pos)]
                 ELSE Let(read(tk2), LAMBDA tk3 :
                          IF curr(tk3) # cp.MINUS
                          THEN [t |-> unread(tk3, 3),
                                v |-> TokenV("Delim", <<cp.LT>>, pos)]
                          ELSE [t |-> tk3, v |-> Token("CDO", pos)])))

\* The "u" / "U" branch of scan.
scanU(tk) ==
    Let(read(tk), LAMBDA tk1 :
    Let(read(tk1), LAMBDA tk2 :
        IF curr(tk1) = cp.PLUS /\ (isHexDigit(curr(tk2)) \/ curr(tk2) = cp.QMARK)
        THEN scanUnicodeRange(unread(tk2, 1))
        ELSE scanIdent(unread(tk2, 2))))

\* The "|" branch of scan.
scanPipe(tk, ch, pos) ==
    Let(read(tk), LAMBDA tk1 :
        IF curr(tk1) = cp.EQ THEN [t |-> tk1, v |-> Token("DashMatch", pos)]
        ELSE IF curr(tk1) = cp.PIPE THEN [t |-> tk1, v |-> Token("Column", pos)]
        ELSE [t |-> unread(tk1, 1), v |-> TokenV("Delim", <<ch>>, pos)])

\* The single-rune tokens of scan.
Punct(ch) ==
    CASE ch = cp.COMMA  -> "Comma"
      [] ch = cp.COLON  -> "Colon"
      [] ch = cp.SEMI   -> "Semicolon"
      [] ch = cp.LPAREN -> "LParen"
      [] ch = cp.RPAREN -> "RParen"
      [] ch = cp.LBRACK -> "LBrack"
      [] ch = cp.RBRACK -> "RBrack"
      [] ch = cp.LBRACE -> "LBrace"
      [] ch = cp.RBRACE -> "RBrace"
      [] OTHER          -> ""

\* The branches are the arms of the source's if / else-if chain; their
\* conditions exclude each other (the name-start arm comes after "u" / "U").
RECURSIVE scan(_)
scan(tk) ==
    Let(read(tk), LAMBDA tk1 :
    LET ch  == curr(tk1)
        pos == Pos(tk1)
    IN CASE ch = eof          -> [t |-> tk1, v |-> Token("EOF", pos)]
         [] isWhitespace(ch)  -> scanWhitespace(tk1)
         [] ch = cp.DQUOTE \/ ch = cp.QUOTE -> scanString(tk1)
         [] ch = cp.HASH      -> scanHash(tk1)
         [] ch = cp.DOLLAR    -> scanMatch(tk1, ch, pos, "SuffixMatch")
         [] ch = cp.STAR      -> scanMatch(tk1, ch, pos, "SubstringMatch")
         [] ch = cp.CARET     -> scanMatch(tk1, ch, pos, "PrefixMatch")
         [] ch = cp.TILDE     -> scanMatch(tk1, ch, pos, "IncludeMatch")
         [] ch = cp.MINUS     -> scanMinus(tk1, pos)
         [] ch = cp.SLASH     ->
               Let(read(tk1), LAMBDA tk2 :
                   IF curr(tk2) = cp.STAR THEN scan(scanComment(tk2))
                   ELSE [t |-> unread(tk2, 1), v |-> TokenV("Delim", <<cp.SLASH>>, pos)])
         [] Punct(ch) # ""    -> [t |-> tk1, v |-> Token(Punct(ch), pos)]
         [] ch = cp.LT        -> scanLess(tk1, pos)
         [] ch = cp.AT        ->
               Let(peekIdent(read(tk1)), LAMBDA pi :
                   IF pi.v
                   THEN Let(scanName(pi.t), LAMBDA nm :
                            [t |-> nm.t, v |-> TokenV("AtKeyword", nm.v, pos)])
                   ELSE [t |-> pi.t, v |-> TokenV("Delim", <<cp.AT>>, pos)])
         [] ch = cp.BSLASH    ->
               Let(peekEscape(tk1), LAMBDA pe :
                   IF pe.v THEN scanIdent(pe.t)
                   ELSE [t |-> [pe.t EXCEPT !.Errors =
                                   Append(@, Error("unescaped \\", 0, Pos(pe.t)))],
                         v |-> TokenV("Delim", <<cp.BSLASH>>, pos)])
         [] ch = cp.PLUS \/ ch = cp.DOT \/ isDigit(ch) -> scanNumeric(unread(tk1, 1), pos)
         [] ch = 117 \/ ch = 85 -> scanU(tk1)
         [] isNameStart(ch) /\ ch # 117 /\ ch # 85 -> scanIdent(tk1)
         [] ch = cp.PIPE      -> scanPipe(tk1, ch, pos)
         [] OTHER             -> [t |-> tk1, v |-> TokenV("Delim", <<WriteRune(ch)>>, pos)])

\* Scan: the buffered token after an Unscan, the next token otherwise.
Scan(tk) ==
    IF tk.tokbufn THEN [t |-> [tk EXCEPT !.tokbufn = FALSE], v |-> tk.tokbuf]
    ELSE Let(scan(tk), LAMBDA r : [t |-> [r.t EXCEPT !.tokbuf = r.v], v |-> r.v])

Unscan(tk) == [tk EXCEPT !.tokbufn = TRUE]

Current(tk) == tk.tokbuf

(***************************************************************************)
(* Runs of the character stream alone: read() is called until it returns   *)
(* the EOF rune.                                                           *)
(***************************************************************************)
ReadAlphabet == {cp.NUL, cp.LF, cp.FF, cp.CR, 97, 98}

InitRead ==
    /\ input \in SeqsUpTo(ReadAlphabet, MaxReadLen)
    /\ t = NewTokenizer(input)
    /\ out = <<>>
    /\ pc = "read"
    /\ p = <<>>

Read ==
    /\ pc = "read"
    /\ t' = read(t)
    /\ out' = Append(out, curr(t'))
    /\ pc' = IF curr(t') = eof THEN "done" ELSE "read"
    /\ UNCHANGED <<input, p>>

NextRead == Read

SpecRead == InitRead /\ [][NextRead]_vars

(***************************************************************************)
(* Runs of the tokenizer: Scan is called again and again on a new          *)
(* Tokenizer.  The last token is t.tokbuf; pc is "scan" until a call has   *)
(* returned an EOF token and "eof" from then on; p is the set of           *)
(* Tokenizers that Scan was called on while pc was "scan".                 *)
(***************************************************************************)
ScanAlphabet == {cp.DOT, cp.MINUS, cp.PLUS, 49, 97, cp.SP, cp.BSLASH, cp.SLASH, cp.STAR}

InitScan ==
    /\ input \in SeqsUpTo(ScanAlphabet, MaxScanLen)
    /\ t = NewTokenizer(input)
    /\ out = <<>>
    /\ pc = "scan"
    /\ p = {}

ScanToken ==
    /\ pc \in {"scan", "eof"}
    /\ \E r \in {Scan(t)} :
          /\ t' = r.t
          /\ pc' = IF r.v.Tok = "EOF" THEN "eof" ELSE pc
    /\ p' = IF pc = "scan" THEN p \cup {t} ELSE p
    /\ UNCHANGED <<input, out>>

NextScan == ScanToken

SpecScan == InitScan /\ [][NextScan]_vars

\* C1: on every input, repeated Scan calls on a new tokenizer return an EOF
\* token after finitely many calls.  What Scan does is a function of the
\* Tokenizer it is called on, so a run that has not yet returned EOF and is
\* back at a Tokenizer it was called on before returns the same tokens over
\* and over and never an EOF: the claim requires that no run gets there.
C1_ScanReachesEOF == pc = "scan" => t \notin p

\* The preprocessing the input is documented to get (CSS Syntax 3.3): FF, CR
\* and CR LF become LF, NUL becomes U+FFFD, everything else is kept.
RECURSIVE Preprocess(_)
Preprocess(s) ==
    IF s = <<>> THEN <<>>
    ELSE LET h == Head(s)
         IN IF h = cp.CR /\ Len(s) > 1 /\ s[2] = cp.LF
            THEN <<cp.LF>> \o Preprocess(Tail(Tail(s)))
            ELSE <<(IF h \in {cp.CR, cp.FF} THEN cp.LF
                    ELSE IF h = cp.NUL THEN cp.REPL ELSE h)>>
                 \o Preprocess(Tail(s))

\* C2: the code points read() returns are, in order, the preprocessed input
\* followed by the EOF rune: nothing dropped, repeated or invented.
C2_ReadIsPreprocessedInput ==
    IsPrefix(out, Preprocess(input) \o <<eof>>)

(***************************************************************************)
(* Component values (src/unnamed/part_003:274-337): a *Token, a            *)
(* *SimpleBlock or a *Function behind the ComponentValue interface.  node  *)
(* is the dynamic type.  Two tokens of one input differ in Pos, so equal   *)
(* records are the same pointer.                                           *)
(***************************************************************************)
TokenNode(tok) ==
    [node |-> "Token", Token |-> tok, Name |-> <<>>, Values |-> <<>>]

SimpleBlock(tok, values) ==
    [node |-> "SimpleBlock", Token |-> tok, Name |-> <<>>, Values |-> values]

Function(name, values) ==
    [node |-> "Function", Token |-> NoToken, Name |-> name, Values |-> values]

\* A nil pointer, and the outcome of a call that panicked.
Nil == [node |-> "nil"]

Panic == [node |-> "panic"]

\* v.(*Token) succeeds and the token's kind is one of toks.
IsTok(v, toks) == v.node = "Token" /\ v.Token.Tok \in toks

(***************************************************************************)
(* componentValueList, the scanner over a fixed list of component values.  *)
(* Scan and Unscan return the list after the call; what Scan returns is    *)
(* ListCurrent of that list.                                               *)
(***************************************************************************)
\* tokbufn, rd, twice and same are history fields, not fields of the Go
\* struct.  tokbufn and rd are the state a Tokenizer over the same values
\* would be in after the same calls (src/tokenizer.go:45-56, 200-202): its
\* flag, and the index of the last value it has read.  twice tells that
\* Unscan was called twice with no Scan in between; same tells that every
\* Scan so far returned the value the Tokenizer would have returned.
newComponentValueList(a) ==
    [i |-> -1, values |-> a, tokbufn |-> FALSE, rd |-> -1,
     twice |-> FALSE, same |-> TRUE]

ListCurrent(l) ==
    IF l.i >= Len(l.values) THEN TokenNode(Token("EOF", ZeroPos))
    ELSE l.values[l.i + 1]

ListScan(l) ==
    [l EXCEPT !.i = IF @ < Len(l.values) THEN @ + 1 ELSE @,
              !.rd = IF l.tokbufn \/ @ >= Len(l.values) THEN @ ELSE @ + 1,
              !.tokbufn = FALSE,
              !.same = /\ @
                       /\ (IF l.i < Len(l.values) THEN l.i + 1 ELSE l.i)
                             = (IF l.tokbufn \/ l.rd >= Len(l.values)
                                THEN l.rd ELSE l.rd + 1)]

ListUnscan(l) ==
    [l EXCEPT !.i = IF @ > -1 THEN @ - 1 ELSE @,
              !.twice = @ \/ l.tokbufn,
              !.tokbufn = TRUE]

(***************************************************************************)
(* The parser.  Each routine returns [s |-> the scanner after the call,    *)
(* v |-> the node returned]; the routines that record errors also take and *)
(* return errors, the parser's error list (p.errors).                      *)
(***************************************************************************)
RECURSIVE consumeComponentValue(_)

\* A switch that lets every closing bracket close every block.
closeOnAnyBracket(open, tok) == tok \in {"EOF", "RBrack", "RBrace", "RParen"}

\* The switch of consumeSimpleBlock: the token closes a block opened by open.
closesBlock(open, tok) ==
    \/ tok = "EOF"
    \/ tok = "RBrack" /\ open = "LBrack"
    \/ tok = "RBrace" /\ open = "LBrace"
    \/ tok = "RParen" /\ open = "LParen"

RECURSIVE consumeSimpleBlockLoop(_, _)
consumeSimpleBlockLoop(s, b) ==
    Let(ListScan(s), LAMBDA s1 :
        IF ListCurrent(s1).node = "Token"
           /\ closesBlock(b.Token.Tok, ListCurrent(s1).Token.Tok)
        THEN [s |-> s1, v |-> b]
        ELSE Let(consumeComponentValue(ListUnscan(s1)), LAMBDA c :
                 consumeSimpleBlockLoop(c.s, [b EXCEPT !.Values = Append(@, c.v)])))

\* b.Token = s.Current().(*Token) panics when the current value is no token.
consumeSimpleBlock(s) ==
    IF ListCurrent(s).node # "Token" THEN [s |-> s, v |-> Panic]
    ELSE consumeSimpleBlockLoop(s, SimpleBlock(ListCurrent(s).Token, <<>>))

RECURSIVE consumeFunctionLoop(_, _)
consumeFunctionLoop(s, f) ==
    Let(ListScan(s), LAMBDA s1 :
        IF IsTok(ListCurrent(s1), {"EOF", "RParen"}) THEN [s |-> s1, v |-> f]
        ELSE Let(consumeComponentValue(ListUnscan(s1)), LAMBDA c :
                 consumeFunctionLoop(c.s, [f EXCEPT !.Values = Append(@, c.v)])))

consumeFunction(s) ==
    consumeFunctionLoop(s, Function(ListCurrent(s).Token.Value, <<>>))

consumeComponentValue(s) ==
    Let(ListScan(s), LAMBDA s1 :
        IF IsTok(ListCurrent(s1), {"LBrace", "LBrack", "LParen"})
        THEN consumeSimpleBlock(s1)
        ELSE IF IsTok(ListCurrent(s1), {"Function"}) THEN consumeFunction(s1)
        ELSE [s |-> s1, v |-> ListCurrent(s1)])

\* A fresh AtRule or QualifiedRule; a QualifiedRule has no Name.
AtRule(name) ==
    [node |-> "AtRule", Name |-> name, Prelude |-> <<>>, Block |-> Nil]

QualifiedRule ==
    [node |-> "QualifiedRule", Name |-> <<>>, Prelude |-> <<>>, Block |-> Nil]

\* The value starts the block of a rule: a "{" token or a "{" simple block.
startsBlock(v) ==
    (v.node = "Token" \/ v.node = "SimpleBlock") /\ v.Token.Tok = "LBrace"

\* r.Block = p.consumeSimpleBlock(s); return r
ruleBlock(s, r) ==
    Let(consumeSimpleBlock(s), LAMBDA b :
        [s |-> b.s, v |-> IF b.v.node = "panic" THEN Panic
                          ELSE [r EXCEPT !.Block = b.v]])

RECURSIVE consumeAtRuleLoop(_, _)
consumeAtRuleLoop(s, r) ==
    Let(ListScan(s), LAMBDA s1 :
        IF IsTok(ListCurrent(s1), {"Semicolon", "EOF"}) THEN [s |-> s1, v |-> r]
        ELSE IF startsBlock(ListCurrent(s1)) THEN ruleBlock(s1, r)
        ELSE Let(consumeComponentValue(ListUnscan(s1)), LAMBDA c :
                 consumeAtRuleLoop(c.s, [r EXCEPT !.Prelude = Append(@, c.v)])))

\* A consumeAtRule that drops the block it consumed.
consumeAtRuleNoBlock(s) ==
    Let(consumeAtRuleLoop(s, AtRule(ListCurrent(s).Token.Value)), LAMBDA r :
        IF r.v.node = "AtRule" THEN [r EXCEPT !.v.Block = Nil] ELSE r)

consumeAtRule(s) == consumeAtRuleLoop(s, AtRule(ListCurrent(s).Token.Value))

RECURSIVE consumeQualifiedRuleLoop(_, _, _)
consumeQualifiedRuleLoop(errors, s, r) ==
    Let(ListScan(s), LAMBDA s1 :
        IF IsTok(ListCurrent(s1), {"EOF"})
        THEN [errors |-> Append(errors, Error("unexpected EOF", 0,
                                              ListCurrent(s1).Token.Pos)),
              s |-> s1, v |-> Nil]
        ELSE IF startsBlock(ListCurrent(s1))
        THEN Let(ruleBlock(s1, r), LAMBDA b :
                 [errors |-> errors, s |-> b.s, v |-> b.v])
        ELSE Let(consumeComponentValue(ListUnscan(s1)), LAMBDA c :
                 consumeQualifiedRuleLoop(errors, c.s,
                                          [r EXCEPT !.Prelude = Append(@, c.v)])))

\* A consumeQualifiedRule that returns the rule read so far at EOF, not nil.
consumeQualifiedRuleKeep(errors, s) ==
    Let(consumeQualifiedRuleLoop(errors, s, QualifiedRule), LAMBDA r :
        IF r.v.node = "nil" THEN [r EXCEPT !.v = QualifiedRule] ELSE r)

consumeQualifiedRule(errors, s) == consumeQualifiedRuleLoop(errors, s, QualifiedRule)

\* One pass of the loop of consumeRules; a is the rule list so far.  pc is
\* "return" when the loop returns a, "panic" when a call panicked, "loop"
\* when the loop goes round again.
appendRule(errors, s, a, r) ==
    [errors |-> errors, s |-> s,
     a  |-> IF r.node \in {"nil", "panic"} THEN a ELSE Append(a, r),
     pc |-> IF r.node = "panic" THEN "panic" ELSE "loop"]

\* A rule list that drops "<!--" and "-->" at every level.
skipsCDEverywhere(v, toplevel) == IsTok(v, {"CDO", "CDC"})

\* case CDOToken, CDCToken with toplevel: nothing is done with the token.
skipsCD(v, toplevel) == IsTok(v, {"CDO", "CDC"}) /\ toplevel

\* A pass of consumeRules that calls Unscan twice before it consumes a
\* qualified rule.
consumeRulesIterBack(errors, s, a, toplevel) ==
    Let(ListScan(s), LAMBDA s1 :
        IF IsTok(ListCurrent(s1), {"Whitespace"})
        THEN [errors |-> errors, s |-> s1, a |-> a, pc |-> "loop"]
        ELSE IF IsTok(ListCurrent(s1), {"EOF"})
        THEN [errors |-> errors, s |-> s1, a |-> a, pc |-> "return"]
        ELSE IF skipsCD(ListCurrent(s1), toplevel)
        THEN [errors |-> errors, s |-> s1, a |-> a, pc |-> "loop"]
        ELSE IF IsTok(ListCurrent(s1), {"AtKeyword"})
        THEN Let(consumeAtRule(s1), LAMBDA r : appendRule(errors, r.s, a, r.v))
        ELSE Let(consumeQualifiedRule(errors, ListUnscan(ListUnscan(s1))), LAMBDA r :
                 appendRule(r.errors, r.s, a, r.v)))

consumeRulesIter(errors, s, a, toplevel) ==
    Let(ListScan(s), LAMBDA s1 :
        IF IsTok(ListCurrent(s1), {"Whitespace"})
        THEN [errors |-> errors, s |-> s1, a |-> a, pc |-> "loop"]
        ELSE IF IsTok(ListCurrent(s1), {"EOF"})
        THEN [errors |-> errors, s |-> s1, a |-> a, pc |-> "return"]
        ELSE IF skipsCD(ListCurrent(s1), toplevel)
        THEN [errors |-> errors, s |-> s1, a |-> a, pc |-> "loop"]
        ELSE IF IsTok(ListCurrent(s1), {"AtKeyword"})
        THEN Let(consumeAtRule(s1), LAMBDA r : appendRule(errors, r.s, a, r.v))
        ELSE Let(consumeQualifiedRule(errors, ListUnscan(s1)), LAMBDA r :
                 appendRule(r.errors, r.s, a, r.v)))

RECURSIVE skipWhitespace(_)
skipWhitespace(s) ==
    Let(ListScan(s), LAMBDA s1 :
        IF ListCurrent(s1).node = "Token"
           /\ ListCurrent(s1).Token.Tok # "Whitespace"
        THEN ListUnscan(s1)
        ELSE skipWhitespace(s1))

RECURSIVE skipComponentValues(_)
skipComponentValues(s) ==
    Let(consumeComponentValue(s), LAMBDA c :
        IF IsTok(c.v, {"Semicolon", "EOF"}) THEN c.s ELSE skipComponentValues(c.s))

RECURSIVE consumeDeclarationValuesLoop(_, _)
consumeDeclarationValuesLoop(s, a) ==
    Let(ListScan(s), LAMBDA s1 :
        IF IsTok(ListCurrent(s1), {"Semicolon", "EOF"})
        THEN [s |-> ListUnscan(s1), v |-> a]
        ELSE consumeDeclarationValuesLoop(s1, Append(a, ListCurrent(s1))))

consumeDeclarationValues(s) == consumeDeclarationValuesLoop(s, <<>>)

\* ComponentValues.nonwhitespace
nonwhitespace(a) == SelectSeq(a, LAMBDA v : ~IsTok(v, {"Whitespace"}))

\* "important" and "!"
important == <<105, 109, 112, 111, 114, 116, 97, 110, 116>>

bang == <<cp.BANG>>

\* The index of the first element of values that is the pointer v.
indexOf(values, v) ==
    CHOOSE i \in 1..Len(values) :
        values[i] = v /\ \A j \in 1..(i - 1) : values[j] # v

\* A cleanImportantFlag that keeps the values before the "!" in place of
\* the values from the "!" on.
cleanImportantFlagBefore(values) ==
    Let(nonwhitespace(values), LAMBDA a :
        IF Len(a) < 2 THEN [values |-> values, important |-> FALSE]
        ELSE IF ~(IsTok(a[Len(a) - 1], {"Delim"})
                  /\ a[Len(a) - 1].Token.Value = bang)
        THEN [values |-> values, important |-> FALSE]
        ELSE IF ~(IsTok(a[Len(a)], {"Ident"})
                  /\ ToLower(a[Len(a)].Token.Value) = important)
        THEN [values |-> values, important |-> FALSE]
        ELSE [values |-> SubSeq(values, 1, indexOf(values, a[Len(a) - 1]) - 1),
              important |-> TRUE])

cleanImportantFlag(values) ==
    Let(nonwhitespace(values), LAMBDA a :
        IF Len(a) < 2 THEN [values |-> values, important |-> FALSE]
        ELSE IF ~(IsTok(a[Len(a) - 1], {"Delim"})
                  /\ a[Len(a) - 1].Token.Value = bang)
        THEN [values |-> values, important |-> FALSE]
        ELSE IF ~(IsTok(a[Len(a)], {"Ident"})
                  /\ ToLower(a[Len(a)].Token.Value) = important)
        THEN [values |-> values, important |-> FALSE]
        ELSE [values |-> SubSeq(values, indexOf(values, a[Len(a) - 1]), Len(values)),
              important |-> TRUE])

Declaration(name, values, imp) ==
    [node |-> "Declaration", Name |-> name, Values |-> values, Important |-> imp]

\* The loop of consumeDeclaration: the values up to EOF.
RECURSIVE consumeDeclarationLoop(_, _)
consumeDeclarationLoop(s, values) ==
    Let(ListScan(s), LAMBDA s1 :
        IF IsTok(ListCurrent(s1), {"EOF"}) THEN [s |-> s1, v |-> values]
        ELSE consumeDeclarationLoop(s1, Append(values, ListCurrent(s1))))

\* The text of the token an error message quotes is left out of Message.
consumeDeclaration(errors, s) ==
    Let(ListScan(s), LAMBDA s1 :
    Let(ListScan(skipWhitespace(s1)), LAMBDA s3 :
        IF ListCurrent(s1).node # "Token" \/ ListCurrent(s3).node # "Token"
        THEN [errors |-> errors, s |-> s3, v |-> Panic]
        ELSE IF ListCurrent(s3).Token.Tok # "Colon"
        THEN [errors |-> Append(errors, Error("expected colon", 0,
                                              ListCurrent(s3).Token.Pos)),
              s |-> s3, v |-> Nil]
        ELSE Let(consumeDeclarationLoop(s3, <<>>), LAMBDA r :
             Let(cleanImportantFlag(r.v), LAMBDA c :
                 [errors |-> errors, s |-> r.s,
                  v |-> Declaration(ListCurrent(s1).Token.Value,
                                    c.values, c.important)]))))

\* One pass of the loop of consumeDeclarations; a is the list so far.
consumeDeclarationsIter(errors, s, a) ==
    Let(ListScan(s), LAMBDA s1 :
        IF IsTok(ListCurrent(s1), {"Whitespace", "Semicolon"})
        THEN [errors |-> errors, s |-> s1, a |-> a, pc |-> "loop"]
        ELSE IF IsTok(ListCurrent(s1), {"EOF"})
        THEN [errors |-> errors, s |-> s1, a |-> a, pc |-> "return"]
        ELSE IF IsTok(ListCurrent(s1), {"AtKeyword"})
        THEN Let(consumeAtRule(s1), LAMBDA r : appendRule(errors, r.s, a, r.v))
        ELSE IF IsTok(ListCurrent(s1), {"Ident"})
        THEN Let(consumeDeclarationValues(ListUnscan(s1)), LAMBDA vs :
             Let(consumeDeclaration(errors, newComponentValueList(vs.v)), LAMBDA d :
                 appendRule(d.errors, vs.s, a, d.v)))
        ELSE [errors |-> Append(errors, Error("unexpected", 0,
                                 IF ListCurrent(s1).node = "Token"
                                 THEN ListCurrent(s1).Token.Pos ELSE ZeroPos)),
              s |-> skipComponentValues(s1), a |-> a, pc |-> "loop"])

(***************************************************************************)
(* The token lists the parser is run on.  A kind is [Tok, Value]; the i-th *)
(* token of a list has Pos.Char = i, as tokens of one input have distinct  *)
(* positions.  The parser reads a list through componentValueList; the     *)
(* scanner over a token stream hands out the same values, the tokens in    *)
(* order and then EOF tokens, with the same Scan, Unscan and Current.      *)
(***************************************************************************)
Kind(tok, value) == [Tok |-> tok, Value |-> value]

tokenList(ks) ==
    [i \in 1..Len(ks) |->
        TokenNode(TokenV(ks[i].Tok, ks[i].Value, [Line |-> 0, Char |-> i]))]

\* A parser that has recorded no error, about to read the list a.
newParser(a) == [errors |-> <<>>, s |-> newComponentValueList(a)]

(***************************************************************************)
(* consumeDeclaration on the list of values of one declaration: the name,  *)
(* a colon and up to MaxValueLen values.  out is <<the node returned>>.    *)
(***************************************************************************)
MaxValueLen == 4

ValueAlphabet ==
    { Kind("Whitespace", <<cp.SP>>),
      Kind("Delim", bang),
      Kind("Ident", important),
      Kind("Ident", <<73>> \o Tail(important)),
      Kind("Ident", <<304>> \o Tail(important)),
      Kind("Ident", <<114>>) }

DeclPrefix == <<Kind("Ident", <<99>>), Kind("Colon", <<>>)>>

InitDecl ==
    /\ input \in {tokenList(DeclPrefix \o ks) : ks \in SeqsUpTo(ValueAlphabet, MaxValueLen)}
    /\ t = NewTokenizer(<<>>)
    /\ out = <<>>
    /\ pc = "decl"
    /\ p = newParser(input)

ConsumeDeclaration ==
    /\ pc = "decl"
    /\ \E d \in {consumeDeclaration(p.errors, p.s)} :
          /\ p' = [errors |-> d.errors, s |-> d.s]
          /\ out' = <<d.v>>
    /\ pc' = "done"
    /\ UNCHANGED <<input, t>>

NextDecl == ConsumeDeclaration

SpecDecl == InitDecl /\ [][NextDecl]_vars

\* The values of the declaration in input: what follows the name and colon.
DeclValues == SubSeq(input, 3, Len(input))

AsciiLower(s) ==
    [i \in 1..Len(s) |-> IF s[i] >= 65 /\ s[i] <= 90 THEN s[i] + 32 ELSE s[i]]

\* Ignoring whitespace, the values end with "!" and an ident that is
\* "important" when its ASCII capitals are made small.
EndsWithImportant(a) ==
    /\ Len(nonwhitespace(a)) >= 2
    /\ LET b == nonwhitespace(a)
       IN /\ IsTok(b[Len(b) - 1], {"Delim"})
          /\ b[Len(b) - 1].Token.Value = bang
          /\ IsTok(b[Len(b)], {"Ident"})
          /\ AsciiLower(b[Len(b)].Token.Value) = important

RECURSIVE TrimRight(_)
TrimRight(a) ==
    IF a # <<>> /\ IsTok(a[Len(a)], {"Whitespace"})
    THEN TrimRight(SubSeq(a, 1, Len(a) - 1))
    ELSE a

\* The values before the "!" of a value list that ends with "!important",
\* without the whitespace next to the "!".
BeforeImportant(a) ==
    LET k == CHOOSE i \in 1..Len(a) :
                 /\ IsTok(a[i], {"Delim"})
                 /\ \A j \in (i + 1)..Len(a) : ~IsTok(a[j], {"Delim"})
    IN TrimRight(SubSeq(a, 1, k - 1))

\* C3: when the value of a declaration ends, ignoring whitespace, with "!"
\* and "important", the declaration stores the values before the "!" in
\* order, without those two tokens and the whitespace next to them.
C3_ImportantRemoved ==
    (pc = "done" /\ EndsWithImportant(DeclValues))
        => out[1].Values = BeforeImportant(DeclValues)

\* C4: the important flag of a declaration is true exactly when, ignoring
\* whitespace, its values are at least two and end with Delim("!") and an
\* Ident that equals "important" under case folding.
C4_ImportantFlag ==
    pc = "done" => (out[1].Important <=> EndsWithImportant(DeclValues))

(***************************************************************************)
(* ParseComponentValues on a list of up to MaxBlockLen tokens: each step   *)
(* is one pass of its loop, out is the list built so far.                  *)
(***************************************************************************)
MaxBlockLen == 4

BlockAlphabet ==
    { Kind("LParen", <<>>), Kind("RParen", <<>>),
      Kind("LBrack", <<>>), Kind("RBrack", <<>>),
      Kind("LBrace", <<>>), Kind("RBrace", <<>>),
      Kind("Function", <<102>>), Kind("Semicolon", <<>>) }

InitValues ==
    /\ input \in {tokenList(ks) : ks \in SeqsUpTo(BlockAlphabet, MaxBlockLen)}
    /\ t = NewTokenizer(<<>>)
    /\ out = <<>>
    /\ pc = "values"
    /\ p = newParser(input)

ParseComponentValues ==
    /\ pc = "values"
    /\ \E c \in {consumeComponentValue(p.s)} :
          /\ p' = [p EXCEPT !.s = c.s]
          /\ out' = IF IsTok(c.v, {"EOF"}) THEN out ELSE Append(out, c.v)
          /\ pc' = IF IsTok(c.v, {"EOF"}) THEN "done" ELSE pc
    /\ UNCHANGED <<input, t>>

NextValues == ParseComponentValues

SpecValues == InitValues /\ [][NextValues]_vars

\* The closing bracket that mirrors the opener of an open block or function.
Mirror(v) ==
    IF v.node = "Function" THEN "RParen"
    ELSE IF v.node # "SimpleBlock" THEN "none"
    ELSE IF v.Token.Tok = "LParen" THEN "RParen"
    ELSE IF v.Token.Tok = "LBrack" THEN "RBrack"
    ELSE "RBrace"

\* The innermost open block is closed: it becomes a value of the one around.
Close(stack) ==
    [SubSeq(stack, 1, Len(stack) - 1) EXCEPT
        ![Len(stack) - 1].Values = Append(@, stack[Len(stack)])]

\* The nesting of a token list read left to right with the stack of the
\* blocks that are open, innermost last, under a root that nothing closes:
\* the mirror of the innermost open block closes it, an opener opens a block
\* inside it, and any other token is a value of it; at the end of the list
\* the blocks still open are closed.
RECURSIVE Nest(_, _)
Nest(stack, rest) ==
    IF rest = <<>>
    THEN IF Len(stack) = 1 THEN stack[1].Values ELSE Nest(Close(stack), rest)
    ELSE IF IsTok(Head(rest), {Mirror(stack[Len(stack)])})
    THEN Nest(Close(stack), Tail(rest))
    ELSE IF IsTok(Head(rest), {"LParen", "LBrack", "LBrace"})
    THEN Nest(Append(stack, SimpleBlock(Head(rest).Token, <<>>)), Tail(rest))
    ELSE IF IsTok(Head(rest), {"Function"})
    THEN Nest(Append(stack, Function(Head(rest).Token.Value, <<>>)), Tail(rest))
    ELSE Nest([stack EXCEPT ![Len(stack)].Values = Append(@, Head(rest))],
              Tail(rest))

Root == [node |-> "root", Token |-> NoToken, Name |-> <<>>, Values |-> <<>>]

\* C5: a simple block ends at the first token of its own nesting level that
\* mirrors its opener, or at the end of the input, and no error is recorded;
\* a closing bracket that does not mirror the innermost open block is a
\* value of that block.  So the values parsed are the nesting of the input.
C5_BlockEndsAtMirror ==
    pc = "done" => out = Nest(<<Root>>, input) /\ p.errors = <<>>

\* A "(" block that holds a "]" and was closed by its ")" before a later value.
C5_Witness ==
    /\ pc = "done"
    /\ Len(out) >= 2
    /\ out[1].node = "SimpleBlock"
    /\ out[1].Token.Tok = "LParen"
    /\ \E j \in 1..Len(out[1].Values) : IsTok(out[1].Values[j], {"RBrack"})

(***************************************************************************)
(* consumeDeclarations on a list of up to MaxDeclsLen tokens: each step is *)
(* one pass of its loop, out is the list of declarations so far.           *)
(***************************************************************************)
MaxDeclsLen == 5

DeclsAlphabet ==
    { Kind("Ident", <<97>>), Kind("Ident", <<98>>), Kind("Colon", <<>>),
      Kind("Semicolon", <<>>), Kind("LParen", <<>>), Kind("RParen", <<>>) }

\* Where a loop of the parser goes after a pass that ended with pc.
after(loop, r) ==
    IF r = "return" THEN "done" ELSE IF r = "panic" THEN "panic" ELSE loop

InitDecls ==
    /\ input \in {tokenList(ks) : ks \in SeqsUpTo(DeclsAlphabet, MaxDeclsLen)}
    /\ t = NewTokenizer(<<>>)
    /\ out = <<>>
    /\ pc = "decls"
    /\ p = newParser(input)

ConsumeDeclarations ==
    /\ pc = "decls"
    /\ \E r \in {consumeDeclarationsIter(p.errors, p.s, out)} :
          /\ p' = [errors |-> r.errors, s |-> r.s]
          /\ out' = r.a
          /\ pc' = after("decls", r.pc)
    /\ UNCHANGED <<input, t>>

NextDecls == ConsumeDeclarations

SpecDecls == InitDecls /\ [][NextDecls]_vars

\* The positions in input of the tokens that are in no block or function.
TopLevel ==
    {Nest(<<Root>>, input)[i].Token.Pos.Char :
        i \in {j \in 1..Len(Nest(<<Root>>, input)) :
                   Nest(<<Root>>, input)[j].node = "Token"}}

\* C6: in a declaration list the value of a declaration runs up to the next
\* top-level semicolon or the end of the input: the token after the last
\* value of a declaration is a semicolon in no block or function, or there
\* is none.
C6_ValueEndsAtTopLevelSemicolon ==
    \A i \in 1..Len(out) :
        (out[i].node = "Declaration" /\ out[i].Values # <<>>)
            => LET next == out[i].Values[Len(out[i].Values)].Token.Pos.Char + 1
               IN next \in 1..Len(input)
                      => IsTok(input[next], {"Semicolon"}) /\ next \in TopLevel

\* The component values of a list cut at the semicolons in no block.
RECURSIVE Segments(_, _)
Segments(vs, cur) ==
    IF vs = <<>> THEN <<cur>>
    ELSE IF IsTok(Head(vs), {"Semicolon"}) THEN <<cur>> \o Segments(Tail(vs), <<>>)
    ELSE Segments(Tail(vs), Append(cur, Head(vs)))

\* A segment is a well-formed declaration: a name, then a colon.
WellFormed(seg) ==
    /\ Len(nonwhitespace(seg)) >= 2
    /\ IsTok(nonwhitespace(seg)[1], {"Ident"})
    /\ IsTok(nonwhitespace(seg)[2], {"Colon"})

\* A segment is a declaration that fails: a name, and no colon after it.
Failed(seg) ==
    /\ nonwhitespace(seg) # <<>>
    /\ IsTok(nonwhitespace(seg)[1], {"Ident"})
    /\ ~WellFormed(seg)

DeclSegments == Segments(Nest(<<Root>>, input), <<>>)

\* Every segment of the list is empty or starts with a name.
OnlyDeclarations ==
    \A i \in 1..Len(DeclSegments) :
        nonwhitespace(DeclSegments[i]) = <<>> \/ WellFormed(DeclSegments[i])
                                             \/ Failed(DeclSegments[i])

\* C10: in a declaration list a declaration that fails records one error
\* and gives no node, and the well-formed declarations, also those after it,
\* are returned in source order.
C10_FailedDeclarationSkipped ==
    (pc = "done" /\ OnlyDeclarations) =>
        /\ Len(p.errors) = Len(SelectSeq(DeclSegments, Failed))
        /\ Len(out) = Len(SelectSeq(DeclSegments, WellFormed))
        /\ \A i \in 1..Len(out) :
               /\ out[i].node = "Declaration"
               /\ out[i].Name =
                      nonwhitespace(SelectSeq(DeclSegments, WellFormed)[i])[1].Token.Value

(***************************************************************************)
(* consumeRules on a list of up to MaxRulesLen tokens, as ParseStyleSheet  *)
(* (toplevel) or ParseRules calls it: each step is one pass of its loop,   *)
(* out is the list of rules so far.  When it has returned, consumeRules    *)
(* may be run again on the values of the block of an at-rule it returned,  *)
(* as TestParser_ConsumeRules does.  p.replay tells the second run.        *)
(***************************************************************************)
MaxRulesLen == 4

RulesAlphabet ==
    { Kind("AtKeyword", <<109>>), Kind("Ident", <<97>>), Kind("LBrace", <<>>),
      Kind("RBrace", <<>>), Kind("Semicolon", <<>>), Kind("CDO", <<>>) }

InitRules ==
    /\ input \in {tokenList(ks) : ks \in SeqsUpTo(RulesAlphabet, MaxRulesLen)}
    /\ t = NewTokenizer(<<>>)
    /\ out = <<>>
    /\ pc = "rules"
    /\ \E toplevel \in BOOLEAN :
          p = [errors |-> <<>>, s |-> newComponentValueList(input),
               toplevel |-> toplevel, replay |-> FALSE]

ConsumeRules ==
    /\ pc = "rules"
    /\ \E r \in {consumeRulesIter(p.errors, p.s, out, p.toplevel)} :
          /\ p' = [p EXCEPT !.errors = r.errors, !.s = r.s]
          /\ out' = r.a
          /\ pc' = after("rules", r.pc)
    /\ UNCHANGED <<input, t>>

Replay ==
    /\ pc = "done"
    /\ ~p.replay
    /\ \E i \in 1..Len(out) :
          /\ out[i].node = "AtRule"
          /\ out[i].Block.node = "SimpleBlock"
          /\ input' = out[i].Block.Values
    /\ p' = [errors |-> p.errors, s |-> newComponentValueList(input'),
             toplevel |-> FALSE, replay |-> TRUE]
    /\ out' = <<>>
    /\ pc' = "rules"
    /\ UNCHANGED t

NextRules == ConsumeRules \/ Replay

SpecRules == InitRules /\ [][NextRules]_vars

\* The values of input that the parser has not scanned yet.
Rest == SubSeq(input, p.s.i + 2, Len(input))

\* The k-th value not yet scanned is an already-built "{" block, and what is
\* before it is the start of one rule: an at-keyword or nothing, then idents.
BuiltBlockEndsRule(k) ==
    /\ k \in 1..Len(Rest)
    /\ Rest[k].node = "SimpleBlock"
    /\ Rest[k].Token.Tok = "LBrace"
    /\ \A j \in 1..(k - 1) :
           IsTok(Rest[j], {"Ident"}) \/ (j = 1 /\ IsTok(Rest[j], {"AtKeyword"}))

\* C7: when rules are consumed from a replayed list, an already-built "{"
\* block ends the at-rule or qualified rule being consumed and becomes its
\* block, and the parser does not fail.
C7_BuiltBlockIsRuleBlock ==
    [][\A k \in 1..MaxRulesLen :
          (pc = "rules" /\ BuiltBlockEndsRule(k))
              => /\ pc' = "rules"
                 /\ Len(out') = Len(out) + 1
                 /\ out'[Len(out')].Block = Rest[k]]_vars

\* The values not yet scanned start a qualified rule that has no "{" block
\* before the end of the list.
QualifiedRuleHitsEOF ==
    /\ Rest # <<>>
    /\ ~IsTok(Rest[1], {"Whitespace", "AtKeyword"})
    /\ ~(p.toplevel /\ IsTok(Rest[1], {"CDO", "CDC"}))
    /\ \A i \in 1..Len(Nest(<<Root>>, Rest)) :
           ~startsBlock(Nest(<<Root>>, Rest)[i])

\* C9: a qualified rule that reaches the end of the list before its "{"
\* block records exactly one "unexpected EOF" error and gives no rule, and
\* the rule list then returns the rules consumed before it.
C9_QualifiedRuleAtEOF ==
    [][/\ (pc = "rules" /\ QualifiedRuleHitsEOF)
           => /\ Len(p'.errors) = Len(p.errors) + 1
              /\ p'.errors[Len(p'.errors)].Message = "unexpected EOF"
              /\ SubSeq(p'.errors, 1, Len(p.errors)) = p.errors
              /\ out' = out
              /\ pc' = "rules"
              /\ p'.s.i = Len(input)
       /\ (pc = "rules" /\ p.s.i = Len(input))
           => pc' = "done" /\ out' = out /\ p'.errors = p.errors]_vars

\* A rule list returned one rule and one error: its last rule met the end.
C9_Witness ==
    /\ pc = "done"
    /\ ~p.replay
    /\ Len(out) = 1
    /\ out[1].node = "QualifiedRule"
    /\ Len(p.errors) = 1
    /\ p.errors[1].Message = "unexpected EOF"

(***************************************************************************)
(* Printer.Print on tokens and lists of tokens; the text is a sequence of  *)
(* code points.                                                            *)
(***************************************************************************)
HexDigit(d) == IF d < 10 THEN 48 + d ELSE 87 + d

RECURSIVE HexDigits(_)
HexDigits(n) ==
    IF n < 16 THEN <<HexDigit(n)>> ELSE Append(HexDigits(n \div 16), HexDigit(n % 16))

\* fmt's %06x: lower-case hexadecimal, zero-padded to six digits.
RECURSIVE Pad6(_)
Pad6(s) == IF Len(s) >= 6 THEN s ELSE Pad6(<<48>> \o s)

Hex6(n) == Pad6(HexDigits(n))

PrintToken(n) ==
    CASE n.Tok = "Ident"     -> n.Value
      [] n.Tok = "Function"  -> n.Value \o <<cp.LPAREN>>
      [] n.Tok = "AtKeyword" -> <<cp.AT>> \o n.Value
      [] n.Tok = "Hash"      -> <<cp.HASH>> \o n.Value
      [] n.Tok = "String"    -> <<WriteRune(n.Ending)>> \o n.Value \o <<WriteRune(n.Ending)>>
      [] n.Tok = "BadString" -> <<cp.QUOTE, cp.QUOTE>>
      [] n.Tok = "URL"       -> <<117, 114, 108, cp.LPAREN>> \o n.Value \o <<cp.RPAREN>>
      [] n.Tok = "BadURL"    -> <<117, 114, 108, cp.LPAREN, cp.RPAREN>>
      [] n.Tok \in {"Delim", "Number", "Percentage", "Dimension", "Whitespace"}
                             -> n.Value
      [] n.Tok = "UnicodeRange" ->
             IF n.Start = n.End THEN <<85, cp.PLUS>> \o Hex6(n.Start)
             ELSE <<85, cp.PLUS>> \o Hex6(n.Start) \o <<cp.MINUS, 85, cp.PLUS>>
                      \o Hex6(n.End)
      [] n.Tok = "IncludeMatch"   -> <<cp.TILDE, cp.EQ>>
      [] n.Tok = "DashMatch"      -> <<cp.PIPE, cp.EQ>>
      [] n.Tok = "PrefixMatch"    -> <<cp.CARET, cp.EQ>>
      [] n.Tok = "SuffixMatch"    -> <<cp.DOLLAR, cp.EQ>>
      [] n.Tok = "SubstringMatch" -> <<cp.STAR, cp.EQ>>
      [] n.Tok = "Column"    -> <<cp.PIPE, cp.PIPE>>
      [] n.Tok = "CDO"       -> <<cp.LT, cp.BANG, cp.MINUS, cp.MINUS>>
      [] n.Tok = "CDC"       -> <<cp.MINUS, cp.MINUS, cp.GT>>
      [] n.Tok = "Colon"     -> <<cp.COLON>>
      [] n.Tok = "Semicolon" -> <<cp.SEMI>>
      [] n.Tok = "Comma"     -> <<cp.COMMA>>
      [] n.Tok = "LBrack"    -> <<cp.LBRACK>>
      [] n.Tok = "RBrack"    -> <<cp.RBRACK>>
      [] n.Tok = "LParen"    -> <<cp.LPAREN>>
      [] n.Tok = "RParen"    -> <<cp.RPAREN>>
      [] n.Tok = "LBrace"    -> <<cp.LBRACE>>
      [] n.Tok = "RBrace"    -> <<cp.RBRACE>>
      [] n.Tok = "EOF"       -> <<69, 79, 70>>
      [] OTHER               -> <<>>

\* Print on ComponentValues that are all tokens: the tokens one after another.
RECURSIVE PrintTokens(_)
PrintTokens(ts) ==
    IF ts = <<>> THEN <<>> ELSE PrintToken(Head(ts)) \o PrintTokens(Tail(ts))

(***************************************************************************)
(* The round trip: an input of up to MaxPrintLen code points is scanned to *)
(* EOF (out), the tokens before the EOF are printed (p.text), and the text *)
(* is scanned to EOF by a new Tokenizer (p.again).  A scan stops after     *)
(* MaxTokens tokens.                                                       *)
(***************************************************************************)
MaxPrintLen == 4

MaxTokens == 12

PrintAlphabet == {103, cp.BSLASH, cp.SP, cp.DQUOTE, cp.SLASH, cp.STAR}

InitRoundTrip ==
    /\ input \in SeqsUpTo(PrintAlphabet, MaxPrintLen)
    /\ t = NewTokenizer(input)
    /\ out = <<>>
    /\ pc = "scan"
    /\ p = [text |-> <<>>, again |-> <<>>]

ScanInput ==
    /\ pc = "scan"
    /\ Len(out) < MaxTokens
    /\ \E r \in {Scan(t)} :
          /\ t' = r.t
          /\ out' = Append(out, r.v)
          /\ pc' = IF r.v.Tok = "EOF" THEN "print" ELSE pc
    /\ UNCHANGED <<input, p>>

PrintScanned ==
    /\ pc = "print"
    /\ p' = [p EXCEPT !.text = PrintTokens(SubSeq(out, 1, Len(out) - 1))]
    /\ t' = NewTokenizer(p'.text)
    /\ pc' = "rescan"
    /\ UNCHANGED <<input, out>>

ScanPrinted ==
    /\ pc = "rescan"
    /\ Len(p.again) < MaxTokens
    /\ \E r \in {Scan(t)} :
          /\ t' = r.t
          /\ p' = [p EXCEPT !.again = Append(@, r.v)]
          /\ pc' = IF r.v.Tok = "EOF" THEN "done" ELSE pc
    /\ UNCHANGED <<input, out>>

NextRoundTrip == ScanInput \/ PrintScanned \/ ScanPrinted

SpecRoundTrip == InitRoundTrip /\ [][NextRoundTrip]_vars

\* The kind and value of each token; the text of Whitespace tokens and the
\* content of BadString and BadURL tokens are left out.
KindsAndValues(ts) ==
    [i \in 1..Len(ts) |->
        [Tok |-> ts[i].Tok,
         Value |-> IF ts[i].Tok \in {"Whitespace", "BadString", "BadURL"}
                   THEN <<>> ELSE ts[i].Value]]

\* A run of Whitespace tokens counts as one.
RECURSIVE Coalesce(_)
Coalesce(ts) ==
    IF Len(ts) < 2 THEN ts
    ELSE IF ts[1].Tok = "Whitespace" /\ ts[2].Tok = "Whitespace"
    THEN Coalesce(Tail(ts))
    ELSE <<Head(ts)>> \o Coalesce(Tail(ts))

\* C8: the tokens of the printed form of the tokens of an input are the
\* tokens of the input, kind by kind and value by value, but for the text of
\* Whitespace tokens and the content of BadString and BadURL tokens.
C8_RoundTrip ==
    pc = "done" => Coalesce(KindsAndValues(p.again)) = Coalesce(KindsAndValues(out))

(***************************************************************************)
(* ParseRule and ParseComponentValue on a stream of up to MaxOneLen        *)
(* tokens.  The stream is read as a list; where the code asks for          *)
(* Current() after Unscan(), which for a token stream is still the token   *)
(* last scanned, the token is taken before the Unscan.  Each returns       *)
(* [errors |-> p.errors, v |-> the node returned].                         *)
(***************************************************************************)
\* An error whose message ends with the printed form of the value v.
ErrorGot(msg, v) ==
    [Message |-> msg, Got |-> PrintToken(v.Token), Rune |-> 0, Pos |-> v.Token.Pos]

\* An end that takes whatever follows the rule or value.
expectNothing(errors, s, v) == [errors |-> errors, v |-> v]

\* The end of ParseRule and ParseComponentValue: white space, then EOF.
expectEOF(errors, s, v) ==
    Let(ListScan(skipWhitespace(s)), LAMBDA s2 :
        IF ~IsTok(ListCurrent(s2), {"EOF"})
        THEN [errors |-> Append(errors, ErrorGot("expected EOF, got", ListCurrent(s2))),
              v |-> Nil]
        ELSE [errors |-> errors, v |-> v])

ParseRule(a) ==
    Let(ListScan(skipWhitespace(newComponentValueList(a))), LAMBDA s1 :
        IF IsTok(ListCurrent(s1), {"EOF"})
        THEN [errors |-> <<Error("unexpected EOF", 0, ListCurrent(s1).Token.Pos)>>,
              v |-> Nil]
        ELSE IF IsTok(ListCurrent(s1), {"AtKeyword"})
        THEN Let(consumeAtRule(s1), LAMBDA r : expectEOF(<<>>, r.s, r.v))
        ELSE Let(consumeQualifiedRule(<<>>, ListUnscan(s1)), LAMBDA r :
                 expectEOF(r.errors, r.s, r.v)))

ParseComponentValue(a) ==
    Let(ListScan(skipWhitespace(newComponentValueList(a))), LAMBDA s1 :
        IF IsTok(ListCurrent(s1), {"EOF"})
        THEN [errors |-> <<Error("unexpected EOF", 0, ListCurrent(s1).Token.Pos)>>,
              v |-> Nil]
        ELSE Let(consumeComponentValue(ListUnscan(s1)), LAMBDA c :
                 expectEOF(<<>>, c.s, c.v)))

MaxOneLen == 4

OneAlphabet ==
    { Kind("Whitespace", <<cp.SP>>), Kind("Ident", <<97>>), Kind("AtKeyword", <<109>>),
      Kind("LBrace", <<>>), Kind("RBrace", <<>>), Kind("Semicolon", <<>>) }

InitOne ==
    /\ input \in {tokenList(ks) : ks \in SeqsUpTo(OneAlphabet, MaxOneLen)}
    /\ t = NewTokenizer(<<>>)
    /\ out = <<>>
    /\ pc = "start"
    /\ p = [errors |-> <<>>, entry |-> "none"]

ParseOneRule ==
    /\ pc = "start"
    /\ \E r \in {ParseRule(input)} :
          /\ p' = [errors |-> r.errors, entry |-> "rule"]
          /\ out' = <<r.v>>
    /\ pc' = "done"
    /\ UNCHANGED <<input, t>>

ParseOneValue ==
    /\ pc = "start"
    /\ \E r \in {ParseComponentValue(input)} :
          /\ p' = [errors |-> r.errors, entry |-> "value"]
          /\ out' = <<r.v>>
    /\ pc' = "done"
    /\ UNCHANGED <<input, t>>

NextOne == ParseOneRule \/ ParseOneValue

SpecOne == InitOne /\ [][NextOne]_vars

\* The list without the white space at its start.
RECURSIVE TrimLeft(_)
TrimLeft(a) ==
    IF a # <<>> /\ IsTok(Head(a), {"Whitespace"}) THEN TrimLeft(Tail(a)) ELSE a

\* The component values of the input after its leading white space.
OneValues == Nest(<<Root>>, TrimLeft(input))

\* The number of component values the one rule or value takes: for a value
\* one, for a rule those up to its "{" block or, for an at-rule, a ";" if it
\* comes first; 0 when a rule has no such end.
OneLength ==
    IF p.entry = "value" THEN 1
    ELSE LET ends == {k \in 1..Len(OneValues) :
                         \/ startsBlock(OneValues[k])
                         \/ /\ IsTok(OneValues[1], {"AtKeyword"})
                            /\ IsTok(OneValues[k], {"Semicolon"})}
         IN IF ends = {} THEN 0 ELSE CHOOSE k \in ends : \A j \in ends : k <= j

\* What follows the one rule or value, without white space.
Residue ==
    IF OneLength = 0 THEN <<>>
    ELSE nonwhitespace(SubSeq(OneValues, OneLength + 1, Len(OneValues)))

\* C11: ParseRule and ParseComponentValue take one rule or value with white
\* space around it: on empty or white input they return no node and the one
\* error "unexpected EOF"; when a token that is not white space follows the
\* rule or value they return no node and the one error "expected EOF, got"
\* with that token; when nothing follows they return the node and no error.
C11_ExactlyOne ==
    pc = "done" =>
        /\ OneValues = <<>> =>
               /\ out = <<Nil>>
               /\ Len(p.errors) = 1
               /\ p.errors[1].Message = "unexpected EOF"
        /\ Residue # <<>> =>
               /\ out = <<Nil>>
               /\ p.errors = <<ErrorGot("expected EOF, got", Residue[1])>>
        /\ (OneLength > 0 /\ OneValues # <<>> /\ Residue = <<>>) =>
               /\ p.errors = <<>>
               /\ out[1].node = IF p.entry = "value" THEN OneValues[1].node
                                ELSE IF IsTok(OneValues[1], {"AtKeyword"})
                                THEN "AtRule" ELSE "QualifiedRule"
               /\ p.entry = "value" => out[1] = OneValues[1]

\* ParseRule met an ident after the block of a qualified rule.
C11_Witness ==
    /\ pc = "done"
    /\ p.entry = "rule"
    /\ Len(Residue) >= 1
    /\ IsTok(Residue[1], {"Ident"})
    /\ Len(p.errors) = 1
    /\ p.errors[1].Message = "expected EOF, got"

\* The values not yet scanned are all tokens and start with "<!--" or "-->".
AtCD ==
    /\ Rest # <<>>
    /\ IsTok(Rest[1], {"CDO", "CDC"})
    /\ \A i \in 1..Len(Rest) : Rest[i].node = "Token"

\* C12: at the top level of a stylesheet a "<!--" or "-->" between rules is
\* discarded: the pass that meets it takes that token alone and adds no rule
\* and no error.  In a rule list that is not the top level it starts a
\* qualified rule: the pass adds a qualified rule whose prelude starts with
\* that token, unless the rule has no "{" block before the end of the list.
C12_CommentDelimiters ==
    [][(pc = "rules" /\ AtCD) =>
          IF p.toplevel
          THEN /\ out' = out
               /\ p'.errors = p.errors
               /\ p'.s.i = p.s.i + 1
               /\ pc' = "rules"
          ELSE IF QualifiedRuleHitsEOF THEN out' = out
          ELSE /\ Len(out') = Len(out) + 1
               /\ out'[Len(out')].node = "QualifiedRule"
               /\ out'[Len(out')].Prelude # <<>>
               /\ out'[Len(out')].Prelude[1] = Rest[1]
               /\ p'.errors = p.errors]_vars

\* A nested rule list returned a rule whose prelude starts with "<!--".
C12_Witness ==
    /\ pc = "done"
    /\ ~p.toplevel
    /\ ~p.replay
    /\ Len(out) >= 1
    /\ out[1].node = "QualifiedRule"
    /\ out[1].Prelude # <<>>
    /\ IsTok(out[1].Prelude[1], {"CDO"})

\* The values not yet scanned are all tokens and start with an at-keyword.
AtAtKeyword ==
    /\ Rest # <<>>
    /\ IsTok(Rest[1], {"AtKeyword"})
    /\ \A i \in 1..Len(Rest) : Rest[i].node = "Token"

\* The component values after the at-keyword.
AtRuleValues == Nest(<<Root>>, Tail(Rest))

\* Where the at-rule ends: the first ";" or "{" block, 0 if there is none.
AtRuleEnd ==
    LET ends == {k \in 1..Len(AtRuleValues) :
                     \/ IsTok(AtRuleValues[k], {"Semicolon"})
                     \/ startsBlock(AtRuleValues[k])}
    IN IF ends = {} THEN 0 ELSE CHOOSE k \in ends : \A j \in ends : k <= j

\* C13: the at-rule that consume-at-rule returns has no block when a ";" or
\* the end of the input ended it and has the "{" block that ended it
\* otherwise; its prelude is what was before its end, and no error is
\* recorded, also not at the end of the input.
C13_AtRuleBlock ==
    [][(pc = "rules" /\ AtAtKeyword) =>
          /\ Len(out') = Len(out) + 1
          /\ SubSeq(out', 1, Len(out)) = out
          /\ p'.errors = p.errors
          /\ LET r == out'[Len(out')]
             IN /\ r.node = "AtRule"
                /\ r.Name = Rest[1].Token.Value
                /\ IF AtRuleEnd = 0
                   THEN r.Block = Nil /\ r.Prelude = AtRuleValues
                   ELSE /\ r.Prelude = SubSeq(AtRuleValues, 1, AtRuleEnd - 1)
                        /\ r.Block = IF startsBlock(AtRuleValues[AtRuleEnd])
                                     THEN AtRuleValues[AtRuleEnd] ELSE Nil]_vars

\* Two at-rules and no error: one ended by its "{" block, one by the end of
\* the input.
C13_Witness ==
    /\ pc = "done"
    /\ ~p.replay
    /\ p.errors = <<>>
    /\ Len(out) = 2
    /\ out[1].node = "AtRule"
    /\ out[1].Block.node = "SimpleBlock"
    /\ out[2].node = "AtRule"
    /\ out[2].Block = Nil
    /\ IsTok(input[Len(input)], {"AtKeyword"})

(***************************************************************************)
(* Scan called again and again on inputs of up to MaxLineLen code points   *)
(* that hold line ends; the variables are used as in SpecScan.             *)
(***************************************************************************)
MaxLineLen == 4

LineAlphabet == {cp.LF, cp.CR, cp.SP, 97}

InitLines ==
    /\ input \in SeqsUpTo(LineAlphabet, MaxLineLen)
    /\ t = NewTokenizer(input)
    /\ out = <<>>
    /\ pc = "scan"
    /\ p = {}

SpecLines == InitLines /\ [][NextScan]_vars

\* Position a is not after position b in (line, char) order.
PosLE(a, b) == a.Line < b.Line \/ (a.Line = b.Line /\ a.Char <= b.Char)

\* C14: the positions of the tokens that successive Scan calls return never
\* decrease in (line, char) order.
C14_PositionsNeverDecrease ==
    [][t.tokbuf.Tok # "nil" => PosLE(t.tokbuf.Pos, t'.tokbuf.Pos)]_vars

\* C15: a token carries the zero-based (line, char) position of its first
\* code point: the token that starts at the first code point of the input,
\* which the first Scan returns, has line 0 and char 0.
C15_FirstTokenAtZero ==
    [][(t = NewTokenizer(input) /\ input # <<>>)
          => t'.tokbuf.Pos = [Line |-> 0, Char |-> 0]]_vars

(***************************************************************************)
(* Scan called again and again on inputs of up to MaxRangeLen code points  *)
(* that spell unicode ranges; the variables are used as in SpecScan.       *)
(***************************************************************************)
MaxRangeLen == 5

RangeAlphabet == {117, cp.PLUS, cp.MINUS, cp.QMARK, 51, 53, 97}

InitRange ==
    /\ input \in SeqsUpTo(RangeAlphabet, MaxRangeLen)
    /\ t = NewTokenizer(input)
    /\ out = <<>>
    /\ pc = "scan"
    /\ p = {}

SpecRange == InitRange /\ [][NextScan]_vars

\* C16: every UnicodeRange token that Scan returns has Start <= End.
C16_RangeStartBeforeEnd ==
    t.tokbuf.Tok = "UnicodeRange" => t.tokbuf.Start <= t.tokbuf.End

\* C17: once Scan has returned an EOF token, every later Scan returns an EOF
\* token again, at the same position.
C17_EOFStays ==
    [][pc = "eof" => /\ t'.tokbuf.Tok = "EOF"
                     /\ t'.tokbuf.Pos = t.tokbuf.Pos
                     /\ pc' = "eof"]_vars

\* Scan has returned EOF at least four times on an input that is not empty:
\* every slot of the buffer holds the EOF rune.
C17_Witness ==
    /\ pc = "eof"
    /\ input # <<>>
    /\ t.tokbuf.Tok = "EOF"
    /\ \A i \in 0..(BufLen - 1) : t.buf[i] = eof

\* C18: in every reachable tokenizer state at most 3 code points are pushed
\* back (bufn never exceeds 3, inside Scan calls included), and no slot that is
\* pushed back is a slot that was never filled (a filled slot never holds the
\* rune 0: read stores U+FFFD for NUL and -1 for EOF).
C18_PushBackBounded ==
    /\ t.bufmax <= 3
    /\ \A k \in 1..t.bufn : t.buf[(t.bufi + k) % BufLen] # 0

MaxHyphenLen == 4

HyphenAlphabet == {cp.MINUS, cp.DOT, cp.GT, 49, 97}

InitHyphen ==
    /\ input \in SeqsUpTo(HyphenAlphabet, MaxHyphenLen)
    /\ t = NewTokenizer(input)
    /\ out = <<>>
    /\ pc = "scan"
    /\ p = {}

SpecHyphen == InitHyphen /\ [][NextScan]_vars

\* How many code points of the input read() has yet to return: those pushed
\* back and those still in the reader.
Remaining(tk) ==
    Len(tk.rd)
        + Cardinality({k \in 1..tk.bufn : tk.buf[(tk.bufi + k) % BufLen] # eof})

\* What follows the hyphen at the start of the input.
DigitFollows(r) ==
    /\ r # <<>>
    /\ \/ isDigit(r[1])
       \/ r[1] = cp.DOT /\ Len(r) >= 2 /\ isDigit(r[2])

IdentFollows(r) == r # <<>> /\ isNameStart(r[1])

ArrowFollows(r) == Len(r) >= 2 /\ r[1] = cp.MINUS /\ r[2] = cp.GT

\* The token the first Scan is to return on an input that starts with "-",
\* and the count of code points it is to leave.
AtHyphen(r, tok, left) ==
    IF DigitFollows(r)
    THEN tok.Tok \in {"Number", "Percentage", "Dimension"}
    ELSE IF IdentFollows(r)
    THEN /\ tok.Tok \in {"Ident", "Function", "URL", "BadURL"}
         /\ tok.Value # <<>>
         /\ tok.Value[1] = cp.MINUS
    ELSE IF ArrowFollows(r)
    THEN tok.Tok = "CDC" /\ left = Len(r) - 2
    ELSE tok.Tok = "Delim" /\ tok.Value = <<cp.MINUS>> /\ left = Len(r)

\* C20: at a "-" the tokenizer returns a numeric token when a digit or
\* ".digit" follows; otherwise one identifier-like token whose value starts
\* with the "-" when an identifier start follows; otherwise CDC, consuming
\* exactly "-->"; otherwise Delim "-", consuming the hyphen alone.
C20_AtHyphen ==
    [][(t = NewTokenizer(input) /\ input # <<>> /\ Head(input) = cp.MINUS)
          => AtHyphen(Tail(input), t'.tokbuf, Remaining(t'))]_vars

(***************************************************************************)
(* Scan called again and again on inputs of up to MaxNameLen code points   *)
(* that spell names, "url" in two cases among them, and "("; the variables *)
(* are used as in SpecScan.                                                *)
(***************************************************************************)
MaxNameLen == 4

NameAlphabet == {117, 85, 114, 108, cp.LPAREN, cp.SP}

InitName ==
    /\ input \in SeqsUpTo(NameAlphabet, MaxNameLen)
    /\ t = NewTokenizer(input)
    /\ out = <<>>
    /\ pc = "scan"
    /\ p = {}

SpecName == InitName /\ [][NextScan]_vars

\* The length of the longest prefix of s made of name code points.
RECURSIVE NameLength(_)
NameLength(s) ==
    IF s = <<>> \/ ~isName(Head(s)) THEN 0 ELSE 1 + NameLength(Tail(s))

\* The token the first Scan is to return on an input that starts with the
\* name nm followed by r, and the count of code points it is to leave.
AfterName(nm, r, tok, left) ==
    IF r # <<>> /\ Head(r) = cp.LPAREN
    THEN IF AsciiLower(nm) = <<117, 114, 108>>
         THEN tok.Tok \in {"URL", "BadURL"}
         ELSE tok.Tok = "Function" /\ tok.Value = nm /\ left = Len(r) - 1
    ELSE tok.Tok = "Ident" /\ tok.Value = nm /\ left = Len(r)

\* C21: after a name is read, "url" in any case followed at once by "("
\* starts a URL scan and any other name followed by "(" gives Function;
\* otherwise one Ident is returned and the next token starts at the code
\* point right after the name, also when the name is "url".
C21_AfterName ==
    [][(t = NewTokenizer(input) /\ input # <<>> /\ isNameStart(Head(input)))
          => AfterName(SubSeq(input, 1, NameLength(input)),
                       SubSeq(input, NameLength(input) + 1, Len(input)),
                       t'.tokbuf, Remaining(t'))]_vars

(***************************************************************************)
(* Scan called again and again on inputs of up to MaxSigilLen code points  *)
(* out of "@", "#" and what the code tells apart after them; the variables *)
(* are used as in SpecScan.                                                *)
(***************************************************************************)
MaxSigilLen == 4

SigilAlphabet == {cp.AT, cp.HASH, cp.MINUS, cp.BSLASH, cp.LF, 49, 97}

InitSigil ==
    /\ input \in SeqsUpTo(SigilAlphabet, MaxSigilLen)
    /\ t = NewTokenizer(input)
    /\ out = <<>>
    /\ pc = "scan"
    /\ p = {}

SpecSigil == InitSigil /\ [][NextScan]_vars

\* r starts with a valid escape: a backslash not followed by a newline.
ValidEscape(r) ==
    r # <<>> /\ r[1] = cp.BSLASH /\ (Len(r) >= 2 => r[2] # cp.LF)

\* r starts an identifier: a name start, or "-" followed by a name start or
\* a valid escape, or a valid escape.
StartsIdent(r) ==
    /\ r # <<>>
    /\ \/ isNameStart(r[1])
       \/ ValidEscape(r)
       \/ /\ r[1] = cp.MINUS
          /\ Len(r) >= 2
          /\ (isNameStart(r[2]) \/ ValidEscape(Tail(r)))

\* The token the first Scan is to return on "@" followed by r, and the count
\* of code points it is to leave; the name is compared when it has no escape.
AfterAt(r, tok, left) ==
    IF StartsIdent(r)
    THEN /\ tok.Tok = "AtKeyword"
         /\ (NameLength(r) = Len(r) \/ r[NameLength(r) + 1] # cp.BSLASH)
               => /\ tok.Value = SubSeq(r, 1, NameLength(r))
                  /\ left = Len(r) - NameLength(r)
    ELSE tok.Tok = "Delim" /\ tok.Value = <<cp.AT>> /\ left = Len(r)

\* C22: "@" followed by an identifier gives AtKeyword with that name;
\* otherwise it gives Delim "@" and the code point after the "@" is not
\* consumed.
C22_AfterAt ==
    [][(t = NewTokenizer(input) /\ input # <<>> /\ Head(input) = cp.AT)
          => AfterAt(Tail(input), t'.tokbuf, Remaining(t'))]_vars

\* The token the first Scan is to return on "#" followed by r, and the count
\* of code points it is to leave when the token is a Delim.
AfterHash(r, tok, left) ==
    IF r # <<>> /\ (isName(r[1]) \/ ValidEscape(r))
    THEN /\ tok.Tok = "Hash"
         /\ tok.Type = (IF StartsIdent(r) THEN "id" ELSE "unrestricted")
    ELSE tok.Tok = "Delim" /\ tok.Value = <<cp.HASH>> /\ left = Len(r)

\* C28: "#" followed by a name code point or a valid escape gives Hash,
\* otherwise Delim "#"; the kind of the Hash is "id" exactly when the code
\* points after the "#" start an identifier, and "unrestricted" otherwise.
C28_AfterHash ==
    [][(t = NewTokenizer(input) /\ input # <<>> /\ Head(input) = cp.HASH)
          => AfterHash(Tail(input), t'.tokbuf, Remaining(t'))]_vars

(***************************************************************************)
(* Scan called again and again on "url(" followed by up to MaxURLLen code  *)
(* points out of those scanURL tells apart after a quote; the variables    *)
(* are used as in SpecScan.                                                *)
(***************************************************************************)
MaxURLLen == 5

URLAlphabet == {cp.DQUOTE, cp.SP, cp.RPAREN, cp.LF, 97}

URLPrefix == <<117, 114, 108, cp.LPAREN>>

InitURL ==
    /\ input \in {URLPrefix \o r : r \in SeqsUpTo(URLAlphabet, MaxURLLen)}
    /\ t = NewTokenizer(input)
    /\ out = <<>>
    /\ pc = "scan"
    /\ p = {}

SpecURL == InitURL /\ [][NextScan]_vars

\* s without the whitespace it starts with.
RECURSIVE SkipWhite(_)
SkipWhite(s) ==
    IF s # <<>> /\ isWhitespace(Head(s)) THEN SkipWhite(Tail(s)) ELSE s

\* The index in s of the first code point that is q, Len(s) + 1 if none is.
RECURSIVE IndexOfRune(_, _)
IndexOfRune(s, q) ==
    IF s = <<>> \/ Head(s) = q THEN 1 ELSE 1 + IndexOfRune(Tail(s), q)

\* What follows "url(" and the whitespace after it.
URLRest == SkipWhite(SubSeq(input, Len(URLPrefix) + 1, Len(input)))

\* The text of the string URLRest starts with, and what follows the string
\* and the whitespace after it.
URLString == SubSeq(URLRest, 2, IndexOfRune(Tail(URLRest), Head(URLRest)))

AfterURLString ==
    SkipWhite(SubSeq(URLRest, IndexOfRune(Tail(URLRest), Head(URLRest)) + 2, Len(URLRest)))

\* C23: inside "url(", a quoted string followed by optional whitespace and
\* then ")" or the end of the input gives a URL token with the value of the
\* string; anything else after the string gives BadURL.
C23_QuotedURL ==
    [][(/\ t = NewTokenizer(input)
        /\ URLRest # <<>>
        /\ Head(URLRest) = cp.DQUOTE
        /\ \A i \in 1..Len(URLString) : URLString[i] # cp.LF)
          => IF AfterURLString = <<>> \/ Head(AfterURLString) = cp.RPAREN
             THEN t'.tokbuf.Tok = "URL" /\ t'.tokbuf.Value = URLString
             ELSE t'.tokbuf.Tok = "BadURL"]_vars

(***************************************************************************)
(* Scan called again and again on inputs of up to MaxNumberLen code points *)
(* out of those scanNumber tells apart; the variables are used as in       *)
(* SpecScan.                                                               *)
(***************************************************************************)
MaxNumberLen == 5

NumberAlphabet == {49, 101, cp.PLUS, cp.MINUS, cp.DOT}

InitNumber ==
    /\ input \in SeqsUpTo(NumberAlphabet, MaxNumberLen)
    /\ t = NewTokenizer(input)
    /\ out = <<>>
    /\ pc = "scan"
    /\ p = {}

SpecNumber == InitNumber /\ [][NextScan]_vars

\* The count of digits s starts with.
RECURSIVE DigitsLength(_)
DigitsLength(s) ==
    IF s = <<>> \/ ~isDigit(Head(s)) THEN 0 ELSE 1 + DigitsLength(Tail(s))

Drop(s, n) == SubSeq(s, n + 1, Len(s))

SignLength(s) == IF s # <<>> /\ Head(s) \in {cp.PLUS, cp.MINUS} THEN 1 ELSE 0

\* The length of "." digits at the start of s, 0 if s does not start so.
FractionLength(s) ==
    IF s # <<>> /\ Head(s) = cp.DOT /\ DigitsLength(Tail(s)) > 0
    THEN 1 + DigitsLength(Tail(s)) ELSE 0

\* The length of [eE] [+-]? digits at the start of s, 0 if s does not start so.
ExponentLength(s) ==
    IF s # <<>> /\ Head(s) \in {101, 69}
          /\ DigitsLength(Drop(Tail(s), SignLength(Tail(s)))) > 0
    THEN 1 + SignLength(Tail(s)) + DigitsLength(Drop(Tail(s), SignLength(Tail(s))))
    ELSE 0

\* The length of sign? digits (. digits)? without the sign.
MantissaLength(s) ==
    DigitsLength(s) + FractionLength(Drop(s, DigitsLength(s)))

\* The length of the longest number lexeme s starts with, 0 if there is none.
NumberLength(s) ==
    IF MantissaLength(Drop(s, SignLength(s))) = 0 THEN 0
    ELSE SignLength(s) + MantissaLength(Drop(s, SignLength(s)))
           + ExponentLength(Drop(s, SignLength(s) + MantissaLength(Drop(s, SignLength(s)))))

\* C24: a number token is the longest lexeme sign? digits (. digits)?
\* ([eE] [+-]? digits)? the input starts with: an exponent is taken with all
\* of its digits, and the repr of the token is the text of that lexeme.
C24_NumberLexeme ==
    [][(t = NewTokenizer(input) /\ NumberLength(input) > 0)
          => /\ t'.tokbuf.Tok \in {"Number", "Dimension", "Percentage"}
             /\ t'.tokbuf.Tok = "Number"
                   => /\ t'.tokbuf.Value = SubSeq(input, 1, NumberLength(input))
                      /\ Remaining(t') = Len(input) - NumberLength(input)
             /\ t'.tokbuf.Tok = "Dimension"
                   => SubSeq(t'.tokbuf.Value, 1,
                             Len(t'.tokbuf.Value) - Len(t'.tokbuf.Unit))
                         = SubSeq(input, 1, NumberLength(input))]_vars

(***************************************************************************)
(* Scan called again and again on escapes and strings: a backslash, up to  *)
(* MaxEscapeDigits hex digits and up to MaxEscapeTail more code points, or *)
(* a quote and up to MaxStringLen code points; the variables are used as   *)
(* in SpecScan.                                                            *)
(***************************************************************************)
MaxEscapeDigits == 6

MaxEscapeTail == 2

MaxStringLen == 3

\* A backslash, hex digits, and a tail of whitespace, a hex digit and a name
\* code point that is no hex digit.
EscapeInputs ==
    {<<cp.BSLASH>> \o d \o r :
        d \in SeqsUpTo({48, 49}, MaxEscapeDigits) \ {<<>>},
        r \in SeqsUpTo({cp.SP, 49, 103}, MaxEscapeTail)}

StringInputs ==
    {<<cp.QUOTE>> \o r : r \in SeqsUpTo({cp.QUOTE, cp.BSLASH, cp.LF, 97}, MaxStringLen)}

InitEscape ==
    /\ input \in EscapeInputs \cup StringInputs
    /\ t = NewTokenizer(input)
    /\ out = <<>>
    /\ pc = "scan"
    /\ p = {}

SpecEscape == InitEscape /\ [][NextScan]_vars

\* The count of hex digits s starts with, at most n.
RECURSIVE HexLength(_, _)
HexLength(s, n) ==
    IF n = 0 \/ s = <<>> \/ ~isHexDigit(Head(s)) THEN 0
    ELSE 1 + HexLength(Tail(s), n - 1)

\* The hex digits of the escape the input starts with, and what follows them.
EscapeHex == SubSeq(input, 2, 1 + HexLength(Tail(input), 6))

AfterEscapeHex == Drop(input, 1 + HexLength(Tail(input), 6))

\* C25: a hex escape consumes 1 to 6 hex digits and then one whitespace code
\* point if one follows; for every count of digits that whitespace is part
\* of neither the escaped value nor any later token: the name goes on with
\* the name code points after the whitespace and the next token starts
\* after them.
C25_EscapeWhitespace ==
    [][(/\ t = NewTokenizer(input)
        /\ input # <<>>
        /\ Head(input) = cp.BSLASH
        /\ EscapeHex # <<>>
        /\ AfterEscapeHex # <<>>
        /\ isWhitespace(Head(AfterEscapeHex)))
          => /\ t'.tokbuf.Tok = "Ident"
             /\ t'.tokbuf.Value =
                   <<WriteRune(ParseHex(EscapeHex))>>
                      \o SubSeq(Tail(AfterEscapeHex), 1, NameLength(Tail(AfterEscapeHex)))
             /\ Remaining(t') =
                   Len(Tail(AfterEscapeHex)) - NameLength(Tail(AfterEscapeHex))]_vars

\* C26: in a string, a backslash that is the last code point of the input
\* is dropped: the value of the String token is the text before it.
C26_BackslashAtEnd ==
    [][(/\ t = NewTokenizer(input)
        /\ Len(input) >= 2
        /\ Head(input) = cp.QUOTE
        /\ Last(input) = cp.BSLASH
        /\ \A i \in 2..(Len(input) - 1) : input[i] = 97)
          => /\ t'.tokbuf.Tok = "String"
             /\ t'.tokbuf.Value = SubSeq(input, 2, Len(input) - 1)]_vars

\* C27: a "+" or "." that does not begin a number (no digit follows, and for
\* "+" no "." and digit follow) gives Delim with that character and consumes
\* that one code point alone.
C27_SignOrStopAlone ==
    [][(/\ t = NewTokenizer(input)
        /\ input # <<>>
        /\ Head(input) \in {cp.PLUS, cp.DOT}
        /\ DigitsLength(Tail(input)) = 0
        /\ Head(input) = cp.PLUS => FractionLength(Tail(input)) = 0)
          => /\ t'.tokbuf.Tok = "Delim"
             /\ t'.tokbuf.Value = <<Head(input)>>
             /\ Remaining(t') = Len(input) - 1]_vars

MaxReplayLen == 4

ReplayAlphabet ==
    { Kind("Whitespace", <<cp.SP>>), Kind("Colon", <<>>), Kind("Ident", <<97>>),
      Kind("LParen", <<>>), Kind("Function", <<102>>) }

\* The values of the kinds ks: an empty block for "(", an empty function for
\* a function token, and the token itself otherwise.
replayList(ks) ==
    [i \in 1..Len(ks) |->
        IF ks[i].Tok = "LParen"
        THEN SimpleBlock(TokenV("LParen", <<>>, [Line |-> 0, Char |-> i]), <<>>)
        ELSE IF ks[i].Tok = "Function"
        THEN Function(ks[i].Value, <<>>)
        ELSE tokenList(ks)[i]]

InitReplay ==
    /\ input \in {replayList(<<Kind("Ident", <<99>>)>> \o ks) :
                     ks \in SeqsUpTo(ReplayAlphabet, MaxReplayLen)}
    /\ t = NewTokenizer(<<>>)
    /\ out = <<>>
    /\ pc = "decl"
    /\ p = newParser(input)

SpecReplay == InitReplay /\ [][NextDecl]_vars

\* After the name and whitespace only, a SimpleBlock or a Function stands in
\* input where the colon is expected.
BlockBeforeColon ==
    \E k \in 2..Len(input) :
        /\ input[k].node \in {"SimpleBlock", "Function"}
        /\ \A j \in 2..(k - 1) : IsTok(input[j], {"Whitespace"})

\* C30: when a declaration is consumed from a replayed list, only Whitespace
\* tokens are skipped between the name and the colon: with a SimpleBlock or
\* a Function standing there, no declaration is returned and the one error
\* recorded is "expected colon".
C30_BlockBeforeColon ==
    (pc = "done" /\ BlockBeforeColon)
        => /\ out = <<Nil>>
           /\ Len(p.errors) = 1
           /\ p.errors[1].Message = "expected colon"

=============================================================================
